---- MODULE Spec2Model ----
(***************************************************************************)
(* A model of impl::HWComposer                                             *)
(* (services/surfaceflinger/DisplayHardware/HWComposer.cpp): the display   *)
(* registry (mDisplayData, mPhysicalDisplayIdMap, the tracked              *)
(* internal/external handles), the hotplug resolver, the vsync filter and  *)
(* the per-frame composition negotiation.  The hardware composer is an     *)
(* opaque device: every answer it gives is an input drawn from a small     *)
(* set.                                                                    *)
(***************************************************************************)
EXTENDS Integers, Sequences, FiniteSets, TLC

VARIABLES
    mDisplayData,            \* displayId -> DisplayData (partial function)
    mPhysicalDisplayIdMap,   \* hwcDisplayId -> PhysicalDisplayId (partial function)
    mInternalHwcDisplayId,   \* optional handle (NoHandle = unset)
    mExternalHwcDisplayId,   \* optional handle (NoHandle = unset)
    mHasMultiDisplaySupport, \* TRUE = generalized mode, FALSE = legacy mode
    mUpdateDeviceProductInfoOnHotplugReconnect, \* configuration read by the constructor
    last,                    \* the most recent call: operation, arguments, result (ret: an
                             \* identity or handle, ok: a bool, status: a status or what
                             \* was logged) and the device calls it made
    log,                     \* the hotplug connects so far, while nothing else has happened
    firstMode,               \* the addressing mode the first connection ever selected
    fwd,                     \* per display record: the last two vsync timestamps forwarded
    frameState,              \* per display record: the state code the latest
                             \* getDeviceCompositionChanges obtained, until the next present
    hwcFrame,                \* the device's count of the frames it has presented
    hwcReleaseFences,        \* the release fences the device handed out at the latest
                             \* getReleaseFences call
    mMaxVirtualDisplayDimension, \* configuration read by the constructor (0 = unbounded)
    mRegisteredCallback,     \* TRUE once setCallback has registered with the device
    loads,                   \* how often the capabilities and the metadata keys were loaded
    registrations,           \* how often registerCallback was called on the device
    inFlight,                \* the onVsync call the callback thread is in the middle of
    vsyncCall,               \* the setVsyncEnabled call a thread is making into the device
    hwcVsync                 \* per display record: the vsync state applied to the device
                             \* display the record holds, and whether a call is inside it

vars == <<mDisplayData, mPhysicalDisplayIdMap, mInternalHwcDisplayId,
          mExternalHwcDisplayId, mHasMultiDisplaySupport,
          mUpdateDeviceProductInfoOnHotplugReconnect, last, log, firstMode, fwd, frameState, hwcFrame,
          hwcReleaseFences, mMaxVirtualDisplayDimension, mRegisteredCallback, loads, registrations, inFlight,
          vsyncCall, hwcVsync>>

(* The virtual-display configuration, the callback registration and the   *)
(* positions of the threads inside a call: no hotplug, frame or display   *)
(* operation that runs as one step writes them.                            *)
rest == <<mMaxVirtualDisplayDimension, mRegisteredCallback, loads, registrations, inFlight, vsyncCall>>

----------------------------------------------------------------------------
(* Bounds of the model *)

NumHandles == 2      \* device handles of physical displays: 1..NumHandles
MaxTime == 2         \* vsync timestamps: 0..MaxTime
LogLen == 3          \* hotplug connects recorded in log
MaxFrame == 3        \* frames the device presents
MaxSetCallback == 3  \* setCallback calls
MaxSize == 3         \* widths and heights of a virtual display: 0..MaxSize

(* Program constants *)

LEGACY_DISPLAY_TYPE_PRIMARY == 0
LEGACY_DISPLAY_TYPE_EXTERNAL == 1

NoHandle == 0
NoId == 0 - 1
NoProduct == 0
NoFence == 0
NoState == 0 - 1

Handles == 1..NumHandles
LegacyHandles == 1..(NumHandles + 1)
Ports == {LEGACY_DISPLAY_TYPE_PRIMARY, LEGACY_DISPLAY_TYPE_EXTERNAL}
Models == {1}        \* the product models a parsed descriptor may carry

(* PhysicalDisplayId::fromPort and the identity a parsed descriptor yields  *)
(* (PhysicalDisplayId::fromEdid): two disjoint families of identities.      *)
fromPort(port) == port
fromEdid(port, model) == 100 + (10 * model) + port

PhysicalIds == {fromPort(p) : p \in Ports} \cup
               {fromEdid(p, m) : p \in Ports, m \in Models}

(* What getDisplayIdentificationData answers: no data, or a port and a     *)
(* blob; model = NoProduct stands for a blob the parser rejects.            *)
NoData == [has |-> FALSE, port |-> 0, model |-> NoProduct]
IdentResponses == {NoData} \cup
    {[has |-> TRUE, port |-> p, model |-> m] : p \in Ports, m \in Models \cup {NoProduct}}

NoInfo == [id |-> NoId, name |-> "", deviceProductInfo |-> NoProduct]

(* parseDisplayIdentificationData(port, data): nullopt (NoInfo) when there *)
(* is no data or it does not parse.                                         *)
parseDisplayIdentificationData(resp) ==
    IF resp.has /\ resp.model # NoProduct
    THEN [id |-> fromEdid(resp.port, resp.model), name |-> "edid",
          deviceProductInfo |-> resp.model]
    ELSE NoInfo

----------------------------------------------------------------------------
(* The registry as one value, so that the helpers compose as in the code.  *)

Registry == [data |-> mDisplayData, map |-> mPhysicalDisplayIdMap,
             internal |-> mInternalHwcDisplayId, external |-> mExternalHwcDisplayId,
             multi |-> mHasMultiDisplaySupport]

(* DisplayData as operator[] value-initializes it, holding a new Display.  *)
NewDisplayData(hwcDisplayId, virtual) ==
    [hwcId |-> hwcDisplayId, connected |-> TRUE, isVirtual |-> virtual,
     vsyncEnabled |-> FALSE, lastHwVsync |-> 0, vsyncTraceToggle |-> FALSE,
     validateWasSkipped |-> FALSE, presentError |-> "NONE",
     lastPresentFence |-> NoFence, releaseFences |-> <<>>]

Put(f, k, v) == [x \in DOMAIN f \cup {k} |-> IF x = k THEN v ELSE f[x]]
Erase(f, k) == [x \in DOMAIN f \ {k} |-> f[x]]

InvalidDisplay(data, displayId) == displayId \notin DOMAIN data

isConnected(data, displayId) ==
    IF displayId \in DOMAIN data THEN data[displayId].connected ELSE FALSE

toPhysicalDisplayId(map, hwcDisplayId) ==
    IF hwcDisplayId \in DOMAIN map THEN map[hwcDisplayId] ELSE NoId

fromPhysicalDisplayId(data, displayId) ==
    IF displayId \in DOMAIN data /\ ~data[displayId].isVirtual
    THEN data[displayId].hwcId ELSE NoHandle

allocatePhysicalDisplay(r, hwcDisplayId, displayId) ==
    LET internal == IF r.internal = NoHandle THEN hwcDisplayId ELSE r.internal
        external == IF r.internal # NoHandle /\ r.internal # hwcDisplayId
                       /\ r.external = NoHandle
                    THEN hwcDisplayId ELSE r.external
        old == IF displayId \in DOMAIN r.data THEN r.data[displayId]
               ELSE NewDisplayData(hwcDisplayId, FALSE)
    IN [r EXCEPT !.map = Put(r.map, hwcDisplayId, displayId),
                 !.internal = internal,
                 !.external = external,
                 !.data = Put(r.data, displayId,
                              [old EXCEPT !.hwcId = hwcDisplayId, !.connected = TRUE])]

(* ui::Size::isValid *)
isValid(width, height) == width > 0 /\ height > 0

(* Mutant: only the width is held against the maximum dimension. *)
allocateVirtualDisplay_WidthOnly(r, maxDimension, displayId, width, height, error, hwcDisplayId) ==
    IF ~isValid(width, height)
    THEN [reg |-> r, ret |-> FALSE, calls |-> <<>>]
    ELSE IF maxDimension > 0 /\ width > maxDimension
    THEN [reg |-> r, ret |-> FALSE, calls |-> <<>>]
    ELSE IF error # "NONE"
    THEN [reg |-> r, ret |-> FALSE, calls |-> <<"createVirtualDisplay">>]
    ELSE LET old == IF displayId \in DOMAIN r.data THEN r.data[displayId]
                    ELSE NewDisplayData(hwcDisplayId, TRUE)
         IN [reg |-> [r EXCEPT !.data =
                         Put(r.data, displayId,
                             [old EXCEPT !.hwcId = hwcDisplayId, !.connected = TRUE,
                                         !.isVirtual = TRUE])],
             ret |-> TRUE, calls |-> <<"createVirtualDisplay">>]

(* Mutant: the new record is not tagged virtual. *)
allocateVirtualDisplay_Untagged(r, maxDimension, displayId, width, height, error, hwcDisplayId) ==
    IF ~isValid(width, height)
    THEN [reg |-> r, ret |-> FALSE, calls |-> <<>>]
    ELSE IF maxDimension > 0 /\ (width > maxDimension \/ height > maxDimension)
    THEN [reg |-> r, ret |-> FALSE, calls |-> <<>>]
    ELSE IF error # "NONE"
    THEN [reg |-> r, ret |-> FALSE, calls |-> <<"createVirtualDisplay">>]
    ELSE LET old == IF displayId \in DOMAIN r.data THEN r.data[displayId]
                    ELSE NewDisplayData(hwcDisplayId, FALSE)
         IN [reg |-> [r EXCEPT !.data =
                         Put(r.data, displayId,
                             [old EXCEPT !.hwcId = hwcDisplayId, !.connected = TRUE])],
             ret |-> TRUE, calls |-> <<"createVirtualDisplay">>]

(* allocateVirtualDisplay: [reg, ret, calls]; error and hwcDisplayId are   *)
(* what createVirtualDisplay answers.  The mirror argument only selects an *)
(* argument of the device call and is left out.                            *)
allocateVirtualDisplay(r, maxDimension, displayId, width, height, error, hwcDisplayId) ==
    IF ~isValid(width, height)
    THEN [reg |-> r, ret |-> FALSE, calls |-> <<>>]
    ELSE IF maxDimension > 0 /\ (width > maxDimension \/ height > maxDimension)
    THEN [reg |-> r, ret |-> FALSE, calls |-> <<>>]
    ELSE IF error # "NONE"
    THEN [reg |-> r, ret |-> FALSE, calls |-> <<"createVirtualDisplay">>]
    ELSE LET old == IF displayId \in DOMAIN r.data THEN r.data[displayId]
                    ELSE NewDisplayData(hwcDisplayId, TRUE)
         IN [reg |-> [r EXCEPT !.data =
                         Put(r.data, displayId,
                             [old EXCEPT !.hwcId = hwcDisplayId, !.connected = TRUE,
                                         !.isVirtual = TRUE])],
             ret |-> TRUE, calls |-> <<"createVirtualDisplay">>]

fromVirtualDisplayId(data, displayId) ==
    IF displayId \in DOMAIN data /\ data[displayId].isVirtual
    THEN data[displayId].hwcId ELSE NoHandle

(* Mutant: generalized mode accepts a display without identification data. *)
shouldIgnoreHotplugConnect_AcceptsNoData(r, hasDisplayIdentificationData) ==
    ~r.multi /\ r.internal # NoHandle /\ r.external # NoHandle

(* Mutant: legacy mode never rejects a tertiary display. *)
shouldIgnoreHotplugConnect_NoTertiary(r, hasDisplayIdentificationData) ==
    r.multi /\ ~hasDisplayIdentificationData

shouldIgnoreHotplugConnect(r, hasDisplayIdentificationData) ==
    \/ r.multi /\ ~hasDisplayIdentificationData
    \/ ~r.multi /\ r.internal # NoHandle /\ r.external # NoHandle

(* Mutant: a connection whose identification data does not parse is       *)
(* ignored.                                                                *)
onHotplugConnect_IgnoresUnparsed(r, update, hwcDisplayId, resp) ==
    LET known == toPhysicalDisplayId(r.map, hwcDisplayId)
        parsed == parseDisplayIdentificationData(resp)
        r1 == IF known = NoId /\ DOMAIN r.map = {}
              THEN [r EXCEPT !.multi = resp.has] ELSE r
        isPrimary == r1.internal = NoHandle
        port == IF r1.multi THEN resp.port
                ELSE IF isPrimary THEN LEGACY_DISPLAY_TYPE_PRIMARY
                ELSE LEGACY_DISPLAY_TYPE_EXTERNAL
        info == IF known # NoId
                THEN [id |-> known, name |-> "",
                      deviceProductInfo |->
                          IF update /\ parsed # NoInfo
                          THEN parsed.deviceProductInfo ELSE NoProduct]
                ELSE IF r1.multi /\ parsed # NoInfo THEN parsed
                ELSE [id |-> fromPort(port),
                      name |-> IF isPrimary THEN "Internal display"
                               ELSE "External display",
                      deviceProductInfo |-> NoProduct]
        calls == IF known = NoId \/ update
                 THEN <<"getDisplayIdentificationData">> ELSE <<>>
    IN IF known = NoId /\ (shouldIgnoreHotplugConnect(r1, resp.has)
                           \/ (r1.multi /\ parsed = NoInfo))
       THEN [reg |-> r1, info |-> NoInfo, calls |-> calls]
       ELSE [reg |-> IF ~isConnected(r1.data, info.id)
                     THEN allocatePhysicalDisplay(r1, hwcDisplayId, info.id)
                     ELSE r1,
             info |-> info, calls |-> calls]

(* Mutant: a mapped handle is treated as a new connection. *)
onHotplugConnect_Rederives(r, update, hwcDisplayId, resp) ==
    LET known == NoId
        parsed == parseDisplayIdentificationData(resp)
        r1 == IF known = NoId /\ DOMAIN r.map = {}
              THEN [r EXCEPT !.multi = resp.has] ELSE r
        isPrimary == r1.internal = NoHandle
        port == IF r1.multi THEN resp.port
                ELSE IF isPrimary THEN LEGACY_DISPLAY_TYPE_PRIMARY
                ELSE LEGACY_DISPLAY_TYPE_EXTERNAL
        info == IF known # NoId
                THEN [id |-> known, name |-> "",
                      deviceProductInfo |->
                          IF update /\ parsed # NoInfo
                          THEN parsed.deviceProductInfo ELSE NoProduct]
                ELSE IF r1.multi /\ parsed # NoInfo THEN parsed
                ELSE [id |-> fromPort(port),
                      name |-> IF isPrimary THEN "Internal display"
                               ELSE "External display",
                      deviceProductInfo |-> NoProduct]
        calls == IF known = NoId \/ update
                 THEN <<"getDisplayIdentificationData">> ELSE <<>>
    IN IF known = NoId /\ shouldIgnoreHotplugConnect(r1, resp.has)
       THEN [reg |-> r1, info |-> NoInfo, calls |-> calls]
       ELSE [reg |-> IF ~isConnected(r1.data, info.id)
                     THEN allocatePhysicalDisplay(r1, hwcDisplayId, info.id)
                     ELSE r1,
             info |-> info, calls |-> calls]

(* onHotplugConnect: [reg, info, calls]; info = NoInfo is the empty optional. *)
onHotplugConnect(r, update, hwcDisplayId, resp) ==
    LET known == toPhysicalDisplayId(r.map, hwcDisplayId)
        parsed == parseDisplayIdentificationData(resp)
        r1 == IF known = NoId /\ DOMAIN r.map = {}
              THEN [r EXCEPT !.multi = resp.has] ELSE r
        isPrimary == r1.internal = NoHandle
        port == IF r1.multi THEN resp.port
                ELSE IF isPrimary THEN LEGACY_DISPLAY_TYPE_PRIMARY
                ELSE LEGACY_DISPLAY_TYPE_EXTERNAL
        info == IF known # NoId
                THEN [id |-> known, name |-> "",
                      deviceProductInfo |->
                          IF update /\ parsed # NoInfo
                          THEN parsed.deviceProductInfo ELSE NoProduct]
                ELSE IF r1.multi /\ parsed # NoInfo THEN parsed
                ELSE [id |-> fromPort(port),
                      name |-> IF isPrimary THEN "Internal display"
                               ELSE "External display",
                      deviceProductInfo |-> NoProduct]
        calls == IF known = NoId \/ update
                 THEN <<"getDisplayIdentificationData">> ELSE <<>>
    IN IF known = NoId /\ shouldIgnoreHotplugConnect(r1, resp.has)
       THEN [reg |-> r1, info |-> NoInfo, calls |-> calls]
       ELSE [reg |-> IF ~isConnected(r1.data, info.id)
                     THEN allocatePhysicalDisplay(r1, hwcDisplayId, info.id)
                     ELSE r1,
             info |-> info, calls |-> calls]

(* Mutant: a bare disconnect destroys the record. *)
onHotplugDisconnect_Destroys(r, hwcDisplayId) ==
    LET displayId == toPhysicalDisplayId(r.map, hwcDisplayId)
    IN IF displayId = NoId
       THEN [reg |-> r, info |-> NoInfo]
       ELSE [reg |-> [r EXCEPT !.data = Erase(@, displayId)],
             info |-> [id |-> displayId, name |-> "", deviceProductInfo |-> NoProduct]]

onHotplugDisconnect(r, hwcDisplayId) ==
    LET displayId == toPhysicalDisplayId(r.map, hwcDisplayId)
    IN IF displayId = NoId
       THEN [reg |-> r, info |-> NoInfo]
       ELSE [reg |-> IF isConnected(r.data, displayId)
                     THEN [r EXCEPT !.data[displayId].connected = FALSE]
                     ELSE r,
             info |-> [id |-> displayId, name |-> "", deviceProductInfo |-> NoProduct]]

disconnectDisplay(r, displayId) ==
    IF InvalidDisplay(r.data, displayId) THEN r
    ELSE LET hwcDisplayId == r.data[displayId].hwcId
         IN [r EXCEPT
                !.internal = IF hwcDisplayId = r.internal THEN NoHandle ELSE @,
                !.external = IF hwcDisplayId # r.internal /\ hwcDisplayId = r.external
                             THEN NoHandle ELSE @,
                !.map = Erase(@, hwcDisplayId),
                !.data = Erase(@, displayId)]

(* Mutant: the duplicate filter is missing. *)
onVsync_NoFilter(data, map, hwcDisplayId, timestamp) ==
    LET displayId == toPhysicalDisplayId(map, hwcDisplayId)
    IN IF displayId = NoId THEN [data |-> data, ret |-> FALSE]
       ELSE IF InvalidDisplay(data, displayId) THEN [data |-> data, ret |-> FALSE]
       ELSE [data |-> [data EXCEPT
                          ![displayId].lastHwVsync = timestamp,
                          ![displayId].vsyncTraceToggle = ~data[displayId].vsyncTraceToggle],
             ret |-> TRUE]

(* Mutant: a duplicate is reported as a failure, but after the state was   *)
(* updated and the trace marker flipped.                                   *)
onVsync_LateFilter(data, map, hwcDisplayId, timestamp) ==
    LET displayId == toPhysicalDisplayId(map, hwcDisplayId)
    IN IF displayId = NoId THEN [data |-> data, ret |-> FALSE]
       ELSE IF InvalidDisplay(data, displayId) THEN [data |-> data, ret |-> FALSE]
       ELSE [data |-> [data EXCEPT
                          ![displayId].lastHwVsync = timestamp,
                          ![displayId].vsyncTraceToggle = ~data[displayId].vsyncTraceToggle],
             ret |-> timestamp # data[displayId].lastHwVsync]

(* onVsync: [data, ret]; ret = TRUE when the event is forwarded. *)
onVsync(data, map, hwcDisplayId, timestamp) ==
    LET displayId == toPhysicalDisplayId(map, hwcDisplayId)
    IN IF displayId = NoId THEN [data |-> data, ret |-> FALSE]
       ELSE IF InvalidDisplay(data, displayId) THEN [data |-> data, ret |-> FALSE]
       ELSE IF timestamp = data[displayId].lastHwVsync
            THEN [data |-> data, ret |-> FALSE]
       ELSE [data |-> [data EXCEPT
                          ![displayId].lastHwVsync = timestamp,
                          ![displayId].vsyncTraceToggle = ~data[displayId].vsyncTraceToggle],
             ret |-> TRUE]

(* Mutant: the invalid-display check comes after the device call. *)
setVsyncEnabled_CallsFirst(data, displayId, enabled, error) ==
    IF InvalidDisplay(data, displayId)
    THEN [data |-> data, ret |-> "Invalid display", calls |-> <<"setVsyncEnabled">>]
    ELSE IF enabled = data[displayId].vsyncEnabled
    THEN [data |-> data, ret |-> "unchanged", calls |-> <<>>]
    ELSE IF error # "NONE"
    THEN [data |-> data, ret |-> "error", calls |-> <<"setVsyncEnabled">>]
    ELSE [data |-> [data EXCEPT ![displayId].vsyncEnabled = enabled],
          ret |-> "ok", calls |-> <<"setVsyncEnabled">>]

(* Mutant: the cached state is written before the device answers. *)
setVsyncEnabled_StoresFirst(data, displayId, enabled, error) ==
    IF InvalidDisplay(data, displayId)
    THEN [data |-> data, ret |-> "Invalid display", calls |-> <<>>]
    ELSE IF enabled = data[displayId].vsyncEnabled
    THEN [data |-> data, ret |-> "unchanged", calls |-> <<>>]
    ELSE [data |-> [data EXCEPT ![displayId].vsyncEnabled = enabled],
          ret |-> IF error # "NONE" THEN "error" ELSE "ok",
          calls |-> <<"setVsyncEnabled">>]

(* setVsyncEnabled: [data, ret, calls]; error is the device's answer to    *)
(* Display::setVsyncEnabled, ret what the call logged or did.               *)
setVsyncEnabled(data, displayId, enabled, error) ==
    IF InvalidDisplay(data, displayId)
    THEN [data |-> data, ret |-> "Invalid display", calls |-> <<>>]
    ELSE IF enabled = data[displayId].vsyncEnabled
    THEN [data |-> data, ret |-> "unchanged", calls |-> <<>>]
    ELSE IF error # "NONE"
    THEN [data |-> data, ret |-> "error", calls |-> <<"setVsyncEnabled">>]
    ELSE [data |-> [data EXCEPT ![displayId].vsyncEnabled = enabled],
          ret |-> "ok", calls |-> <<"setVsyncEnabled">>]

(* hal::Error values a frame call can answer with; HAS_CHANGES is the     *)
(* has-pending-changes code, which is not a failure of presentOrValidate.  *)
PresentOrValidateErrors == {"NONE", "HAS_CHANGES", "BAD_DISPLAY"}

hasChangesError(error) == error = "HAS_CHANGES"

(* The layers of a frame, and the state codes presentOrValidate reports:   *)
(* 0 validate only, 1 committed without changes, 2 committed with changes; *)
(* NoState is the UINT32_MAX the variable starts with.                     *)
FrameLayers == {1}
FrameStates == {0, 1, 2, NoState}

(* What the device answers during one getDeviceCompositionChanges: the     *)
(* error and state of presentOrValidate, the error and the layers of       *)
(* getReleaseFences, and the errors of getChangedCompositionTypes,         *)
(* getRequests, getClientTargetProperty and acceptChanges.                 *)
ValidateAnswers ==
    [pvError : PresentOrValidateErrors, state : FrameStates,
     rfError : {"NONE", "BAD_DISPLAY"}, layers : SUBSET FrameLayers,
     cctError : {"NONE", "BAD_DISPLAY"}, reqError : {"NONE", "BAD_DISPLAY"},
     ctpError : {"NONE", "BAD_DISPLAY"}, accError : {"NONE", "BAD_DISPLAY"}]

(* What the device answers during one presentAndGetReleaseFences, and      *)
(* whether the previous present fence is still pending.                    *)
PresentAnswers ==
    [execError : {"NONE", "BAD_DISPLAY"}, presentError : {"NONE", "BAD_DISPLAY"},
     rfError : {"NONE", "BAD_DISPLAY"}, layers : SUBSET FrameLayers,
     previousFramePending : BOOLEAN]

(* The release fences Display::getReleaseFences hands back: one fence of   *)
(* the frame per layer, nothing on an error.                               *)
ReleaseFences(error, layers, frame) ==
    IF error = "NONE" THEN [l \in layers |-> frame] ELSE <<>>

(* setClientTarget: [status, calls] (it changes no state). *)
setClientTarget(data, displayId, error) ==
    IF InvalidDisplay(data, displayId)
    THEN [status |-> "BAD_INDEX", calls |-> <<>>]
    ELSE IF data[displayId].validateWasSkipped
    THEN [status |-> "NO_ERROR", calls |-> <<>>]
    ELSE [status |-> IF error # "NONE" THEN "BAD_VALUE" ELSE "NO_ERROR",
          calls |-> <<"setClientTarget">>]

(* Mutant: a fast commit with changes is accepted again. *)
getDeviceCompositionChanges_AlwaysAccepts(data, displayId, d, frame) ==
    IF InvalidDisplay(data, displayId)
    THEN [data |-> data, status |-> "BAD_INDEX", calls |-> <<>>, changes |-> FALSE]
    ELSE IF ~data[displayId].connected
    THEN [data |-> data, status |-> "NO_ERROR", calls |-> <<>>, changes |-> FALSE]
    ELSE
    LET reset == [data EXCEPT ![displayId].validateWasSkipped = FALSE]
        committed == d.state = 1 \/ d.state = 2
        captured == IF committed
                    THEN [reset EXCEPT
                            ![displayId].releaseFences =
                                ReleaseFences(d.rfError, d.layers, frame),
                            ![displayId].lastPresentFence = frame,
                            ![displayId].validateWasSkipped = TRUE,
                            ![displayId].presentError = d.rfError]
                    ELSE reset
        error == IF committed THEN d.rfError ELSE d.pvError
        fast == <<"presentOrValidate">> \o
                (IF committed THEN <<"getReleaseFences">> ELSE <<>>)
        acceptChanges == TRUE
    IN IF ~hasChangesError(d.pvError) /\ d.pvError # "NONE"
       THEN [data |-> reset, status |-> "UNKNOWN_ERROR",
             calls |-> <<"presentOrValidate">>, changes |-> FALSE]
       ELSE IF d.state = 1
       THEN [data |-> captured, status |-> "NO_ERROR", calls |-> fast,
             changes |-> FALSE]
       ELSE IF ~hasChangesError(error) /\ error # "NONE"
       THEN [data |-> captured, status |-> "BAD_INDEX", calls |-> fast,
             changes |-> FALSE]
       ELSE IF d.cctError # "NONE"
       THEN [data |-> captured, status |-> "BAD_INDEX",
             calls |-> fast \o <<"getChangedCompositionTypes">>, changes |-> FALSE]
       ELSE IF d.reqError # "NONE"
       THEN [data |-> captured, status |-> "BAD_INDEX",
             calls |-> fast \o <<"getChangedCompositionTypes", "getRequests">>,
             changes |-> FALSE]
       ELSE IF acceptChanges
       THEN [data |-> captured,
             status |-> IF d.accError # "NONE" THEN "BAD_INDEX" ELSE "NO_ERROR",
             calls |-> fast \o <<"getChangedCompositionTypes", "getRequests",
                                 "getClientTargetProperty", "acceptChanges">>,
             changes |-> TRUE]
       ELSE [data |-> captured, status |-> "NO_ERROR",
             calls |-> fast \o <<"getChangedCompositionTypes", "getRequests",
                                 "getClientTargetProperty">>,
             changes |-> TRUE]

(* Mutant: a validate call follows a presentOrValidate that did not commit. *)
getDeviceCompositionChanges_ValidatesAgain(data, displayId, d, frame) ==
    IF InvalidDisplay(data, displayId)
    THEN [data |-> data, status |-> "BAD_INDEX", calls |-> <<>>, changes |-> FALSE]
    ELSE IF ~data[displayId].connected
    THEN [data |-> data, status |-> "NO_ERROR", calls |-> <<>>, changes |-> FALSE]
    ELSE
    LET reset == [data EXCEPT ![displayId].validateWasSkipped = FALSE]
        committed == d.state = 1 \/ d.state = 2
        captured == IF committed
                    THEN [reset EXCEPT
                            ![displayId].releaseFences =
                                ReleaseFences(d.rfError, d.layers, frame),
                            ![displayId].lastPresentFence = frame,
                            ![displayId].validateWasSkipped = TRUE,
                            ![displayId].presentError = d.rfError]
                    ELSE reset
        error == IF committed THEN d.rfError ELSE d.pvError
        fast == <<"presentOrValidate">> \o
                (IF committed THEN <<"getReleaseFences">> ELSE <<"validate">>)
        acceptChanges == d.state # 2
    IN IF ~hasChangesError(d.pvError) /\ d.pvError # "NONE"
       THEN [data |-> reset, status |-> "UNKNOWN_ERROR",
             calls |-> <<"presentOrValidate">>, changes |-> FALSE]
       ELSE IF d.state = 1
       THEN [data |-> captured, status |-> "NO_ERROR", calls |-> fast,
             changes |-> FALSE]
       ELSE IF ~hasChangesError(error) /\ error # "NONE"
       THEN [data |-> captured, status |-> "BAD_INDEX", calls |-> fast,
             changes |-> FALSE]
       ELSE IF d.cctError # "NONE"
       THEN [data |-> captured, status |-> "BAD_INDEX",
             calls |-> fast \o <<"getChangedCompositionTypes">>, changes |-> FALSE]
       ELSE IF d.reqError # "NONE"
       THEN [data |-> captured, status |-> "BAD_INDEX",
             calls |-> fast \o <<"getChangedCompositionTypes", "getRequests">>,
             changes |-> FALSE]
       ELSE IF acceptChanges
       THEN [data |-> captured,
             status |-> IF d.accError # "NONE" THEN "BAD_INDEX" ELSE "NO_ERROR",
             calls |-> fast \o <<"getChangedCompositionTypes", "getRequests",
                                 "getClientTargetProperty", "acceptChanges">>,
             changes |-> TRUE]
       ELSE [data |-> captured, status |-> "NO_ERROR",
             calls |-> fast \o <<"getChangedCompositionTypes", "getRequests",
                                 "getClientTargetProperty">>,
             changes |-> TRUE]

(* getDeviceCompositionChanges: [data, status, calls, changes]; d is what  *)
(* the device answers, frame the fence the device signals for the frame it *)
(* commits, calls the device calls in order, changes whether outChanges    *)
(* was populated.                                                          *)
getDeviceCompositionChanges(data, displayId, d, frame) ==
    IF InvalidDisplay(data, displayId)
    THEN [data |-> data, status |-> "BAD_INDEX", calls |-> <<>>, changes |-> FALSE]
    ELSE IF ~data[displayId].connected
    THEN [data |-> data, status |-> "NO_ERROR", calls |-> <<>>, changes |-> FALSE]
    ELSE
    LET reset == [data EXCEPT ![displayId].validateWasSkipped = FALSE]
        committed == d.state = 1 \/ d.state = 2
        captured == IF committed
                    THEN [reset EXCEPT
                            ![displayId].releaseFences =
                                ReleaseFences(d.rfError, d.layers, frame),
                            ![displayId].lastPresentFence = frame,
                            ![displayId].validateWasSkipped = TRUE,
                            ![displayId].presentError = d.rfError]
                    ELSE reset
        error == IF committed THEN d.rfError ELSE d.pvError
        fast == <<"presentOrValidate">> \o
                (IF committed THEN <<"getReleaseFences">> ELSE <<>>)
        acceptChanges == d.state # 2
    IN IF ~hasChangesError(d.pvError) /\ d.pvError # "NONE"
       THEN [data |-> reset, status |-> "UNKNOWN_ERROR",
             calls |-> <<"presentOrValidate">>, changes |-> FALSE]
       ELSE IF d.state = 1
       THEN [data |-> captured, status |-> "NO_ERROR", calls |-> fast,
             changes |-> FALSE]
       ELSE IF ~hasChangesError(error) /\ error # "NONE"
       THEN [data |-> captured, status |-> "BAD_INDEX", calls |-> fast,
             changes |-> FALSE]
       ELSE IF d.cctError # "NONE"
       THEN [data |-> captured, status |-> "BAD_INDEX",
             calls |-> fast \o <<"getChangedCompositionTypes">>, changes |-> FALSE]
       ELSE IF d.reqError # "NONE"
       THEN [data |-> captured, status |-> "BAD_INDEX",
             calls |-> fast \o <<"getChangedCompositionTypes", "getRequests">>,
             changes |-> FALSE]
       ELSE IF acceptChanges
       THEN [data |-> captured,
             status |-> IF d.accError # "NONE" THEN "BAD_INDEX" ELSE "NO_ERROR",
             calls |-> fast \o <<"getChangedCompositionTypes", "getRequests",
                                 "getClientTargetProperty", "acceptChanges">>,
             changes |-> TRUE]
       ELSE [data |-> captured, status |-> "NO_ERROR",
             calls |-> fast \o <<"getChangedCompositionTypes", "getRequests",
                                 "getClientTargetProperty">>,
             changes |-> TRUE]

(* Mutant: the skipped-validate flag is cleared but the present is issued  *)
(* all the same.                                                           *)
presentAndGetReleaseFences_PresentsAgain(data, displayId, d, frame) ==
    IF InvalidDisplay(data, displayId)
    THEN [data |-> data, status |-> "BAD_INDEX", calls |-> <<>>]
    ELSE
    LET cleared == [data EXCEPT ![displayId].validateWasSkipped = FALSE,
                                ![displayId].lastPresentFence = NoFence]
        wait == IF d.previousFramePending THEN <<>> ELSE <<"sleep_until">>
    IN IF d.presentError # "NONE"
       THEN [data |-> cleared, status |-> "UNKNOWN_ERROR",
             calls |-> wait \o <<"present">>]
       ELSE IF d.rfError # "NONE"
       THEN [data |-> [cleared EXCEPT ![displayId].lastPresentFence = frame],
             status |-> "UNKNOWN_ERROR",
             calls |-> wait \o <<"present", "getReleaseFences">>]
       ELSE [data |-> [cleared EXCEPT
                          ![displayId].lastPresentFence = frame,
                          ![displayId].releaseFences =
                              ReleaseFences(d.rfError, d.layers, frame)],
             status |-> "NO_ERROR",
             calls |-> wait \o <<"present", "getReleaseFences">>]

(* Mutant: the release fences are queried although present failed. *)
presentAndGetReleaseFences_QueriesAfterFailedPresent(data, displayId, d, frame) ==
    IF InvalidDisplay(data, displayId)
    THEN [data |-> data, status |-> "BAD_INDEX", calls |-> <<>>]
    ELSE IF data[displayId].validateWasSkipped
    THEN [data |-> [data EXCEPT ![displayId].validateWasSkipped = FALSE],
          status |-> IF d.execError # "NONE" \/ data[displayId].presentError # "NONE"
                     THEN "UNKNOWN_ERROR" ELSE "NO_ERROR",
          calls |-> <<"executeCommands">>]
    ELSE
    LET cleared == [data EXCEPT ![displayId].lastPresentFence = NoFence]
        wait == IF d.previousFramePending THEN <<>> ELSE <<"sleep_until">>
    IN IF d.presentError # "NONE" \/ d.rfError # "NONE"
       THEN [data |-> IF d.presentError # "NONE" THEN cleared
                      ELSE [cleared EXCEPT ![displayId].lastPresentFence = frame],
             status |-> "UNKNOWN_ERROR",
             calls |-> wait \o <<"present", "getReleaseFences">>]
       ELSE [data |-> [cleared EXCEPT
                          ![displayId].lastPresentFence = frame,
                          ![displayId].releaseFences =
                              ReleaseFences(d.rfError, d.layers, frame)],
             status |-> "NO_ERROR",
             calls |-> wait \o <<"present", "getReleaseFences">>]

(* Mutant: the error captured during the skipped validate is dropped. *)
presentAndGetReleaseFences_DropsCapturedError(data, displayId, d, frame) ==
    IF InvalidDisplay(data, displayId)
    THEN [data |-> data, status |-> "BAD_INDEX", calls |-> <<>>]
    ELSE IF data[displayId].validateWasSkipped
    THEN [data |-> [data EXCEPT ![displayId].validateWasSkipped = FALSE],
          status |-> IF d.execError # "NONE" THEN "UNKNOWN_ERROR" ELSE "NO_ERROR",
          calls |-> <<"executeCommands">>]
    ELSE
    LET cleared == [data EXCEPT ![displayId].lastPresentFence = NoFence]
        wait == IF d.previousFramePending THEN <<>> ELSE <<"sleep_until">>
    IN IF d.presentError # "NONE"
       THEN [data |-> cleared, status |-> "UNKNOWN_ERROR",
             calls |-> wait \o <<"present">>]
       ELSE IF d.rfError # "NONE"
       THEN [data |-> [cleared EXCEPT ![displayId].lastPresentFence = frame],
             status |-> "UNKNOWN_ERROR",
             calls |-> wait \o <<"present", "getReleaseFences">>]
       ELSE [data |-> [cleared EXCEPT
                          ![displayId].lastPresentFence = frame,
                          ![displayId].releaseFences =
                              ReleaseFences(d.rfError, d.layers, frame)],
             status |-> "NO_ERROR",
             calls |-> wait \o <<"present", "getReleaseFences">>]

(* Mutant: the wait is taken when the previous frame is still pending. *)
presentAndGetReleaseFences_WaitsWhenPending(data, displayId, d, frame) ==
    IF InvalidDisplay(data, displayId)
    THEN [data |-> data, status |-> "BAD_INDEX", calls |-> <<>>]
    ELSE IF data[displayId].validateWasSkipped
    THEN [data |-> [data EXCEPT ![displayId].validateWasSkipped = FALSE],
          status |-> IF d.execError # "NONE" \/ data[displayId].presentError # "NONE"
                     THEN "UNKNOWN_ERROR" ELSE "NO_ERROR",
          calls |-> <<"executeCommands">>]
    ELSE
    LET cleared == [data EXCEPT ![displayId].lastPresentFence = NoFence]
        wait == IF d.previousFramePending THEN <<"sleep_until">> ELSE <<>>
    IN IF d.presentError # "NONE"
       THEN [data |-> cleared, status |-> "UNKNOWN_ERROR",
             calls |-> wait \o <<"present">>]
       ELSE IF d.rfError # "NONE"
       THEN [data |-> [cleared EXCEPT ![displayId].lastPresentFence = frame],
             status |-> "UNKNOWN_ERROR",
             calls |-> wait \o <<"present", "getReleaseFences">>]
       ELSE [data |-> [cleared EXCEPT
                          ![displayId].lastPresentFence = frame,
                          ![displayId].releaseFences =
                              ReleaseFences(d.rfError, d.layers, frame)],
             status |-> "NO_ERROR",
             calls |-> wait \o <<"present", "getReleaseFences">>]

(* Mutant: the new release fences are merged into the stored map. *)
presentAndGetReleaseFences_MergesFences(data, displayId, d, frame) ==
    IF InvalidDisplay(data, displayId)
    THEN [data |-> data, status |-> "BAD_INDEX", calls |-> <<>>]
    ELSE IF data[displayId].validateWasSkipped
    THEN [data |-> [data EXCEPT ![displayId].validateWasSkipped = FALSE],
          status |-> IF d.execError # "NONE" \/ data[displayId].presentError # "NONE"
                     THEN "UNKNOWN_ERROR" ELSE "NO_ERROR",
          calls |-> <<"executeCommands">>]
    ELSE
    LET cleared == [data EXCEPT ![displayId].lastPresentFence = NoFence]
        wait == IF d.previousFramePending THEN <<>> ELSE <<"sleep_until">>
        old == data[displayId].releaseFences
        new == ReleaseFences(d.rfError, d.layers, frame)
    IN IF d.presentError # "NONE"
       THEN [data |-> cleared, status |-> "UNKNOWN_ERROR",
             calls |-> wait \o <<"present">>]
       ELSE IF d.rfError # "NONE"
       THEN [data |-> [cleared EXCEPT ![displayId].lastPresentFence = frame],
             status |-> "UNKNOWN_ERROR",
             calls |-> wait \o <<"present", "getReleaseFences">>]
       ELSE [data |-> [cleared EXCEPT
                          ![displayId].lastPresentFence = frame,
                          ![displayId].releaseFences =
                              [l \in DOMAIN old \cup DOMAIN new |->
                                  IF l \in DOMAIN new THEN new[l] ELSE old[l]]],
             status |-> "NO_ERROR",
             calls |-> wait \o <<"present", "getReleaseFences">>]

(* presentAndGetReleaseFences: [data, status, calls]; frame is the fence   *)
(* the device signals for the frame if it presents it.                     *)
presentAndGetReleaseFences(data, displayId, d, frame) ==
    IF InvalidDisplay(data, displayId)
    THEN [data |-> data, status |-> "BAD_INDEX", calls |-> <<>>]
    ELSE IF data[displayId].validateWasSkipped
    THEN [data |-> [data EXCEPT ![displayId].validateWasSkipped = FALSE],
          status |-> IF d.execError # "NONE" \/ data[displayId].presentError # "NONE"
                     THEN "UNKNOWN_ERROR" ELSE "NO_ERROR",
          calls |-> <<"executeCommands">>]
    ELSE
    LET cleared == [data EXCEPT ![displayId].lastPresentFence = NoFence]
        wait == IF d.previousFramePending THEN <<>> ELSE <<"sleep_until">>
    IN IF d.presentError # "NONE"
       THEN [data |-> cleared, status |-> "UNKNOWN_ERROR",
             calls |-> wait \o <<"present">>]
       ELSE IF d.rfError # "NONE"
       THEN [data |-> [cleared EXCEPT ![displayId].lastPresentFence = frame],
             status |-> "UNKNOWN_ERROR",
             calls |-> wait \o <<"present", "getReleaseFences">>]
       ELSE [data |-> [cleared EXCEPT
                          ![displayId].lastPresentFence = frame,
                          ![displayId].releaseFences =
                              ReleaseFences(d.rfError, d.layers, frame)],
             status |-> "NO_ERROR",
             calls |-> wait \o <<"present", "getReleaseFences">>]

(* Mutant: a layer without a stored fence gets the present fence. *)
getLayerReleaseFence_PresentFence(data, displayId, layer) ==
    IF InvalidDisplay(data, displayId) THEN NoFence
    ELSE IF layer \notin DOMAIN data[displayId].releaseFences
    THEN data[displayId].lastPresentFence
    ELSE data[displayId].releaseFences[layer]

(* getLayerReleaseFence: the stored fence of the layer, or NoFence. *)
getLayerReleaseFence(data, displayId, layer) ==
    IF InvalidDisplay(data, displayId) THEN NoFence
    ELSE IF layer \notin DOMAIN data[displayId].releaseFences THEN NoFence
    ELSE data[displayId].releaseFences[layer]

(* getPresentFence *)
getPresentFence(data, displayId) ==
    IF InvalidDisplay(data, displayId) THEN NoFence
    ELSE data[displayId].lastPresentFence

(* Mutant: the record is looked up with operator[] before the check, which *)
(* value-initializes a record for an unknown identity.                     *)
clearReleaseFences_NoCheck(data, displayId) ==
    IF InvalidDisplay(data, displayId)
    THEN Put(data, displayId, [NewDisplayData(NoHandle, FALSE) EXCEPT !.connected = FALSE])
    ELSE [data EXCEPT ![displayId].releaseFences = <<>>]

(* clearReleaseFences: the new mDisplayData. *)
clearReleaseFences(data, displayId) ==
    IF InvalidDisplay(data, displayId) THEN data
    ELSE [data EXCEPT ![displayId].releaseFences = <<>>]

(* hal::PowerMode values; "OTHER" is any value the switch does not name. *)
PowerModes == {"OFF", "ON", "DOZE", "DOZE_SUSPEND", "OTHER"}

(* setPowerMode: [status, calls]; device errors are logged only. *)
setPowerMode(data, displayId, mode, supportsDoze) ==
    IF InvalidDisplay(data, displayId)
    THEN [status |-> "BAD_INDEX", calls |-> <<>>]
    ELSE IF mode \in {"OFF", "ON"}
    THEN [status |-> "NO_ERROR",
          calls |-> <<IF mode = "OFF" THEN "setPowerMode(OFF)" ELSE "setPowerMode(ON)">>]
    ELSE IF mode \in {"DOZE", "DOZE_SUSPEND"}
    THEN [status |-> "NO_ERROR",
          calls |-> <<"supportsDoze",
                      IF ~supportsDoze THEN "setPowerMode(ON)"
                      ELSE IF mode = "DOZE" THEN "setPowerMode(DOZE)"
                      ELSE "setPowerMode(DOZE_SUSPEND)">>]
    ELSE [status |-> "NO_ERROR", calls |-> <<>>]

(* createLayer: [status, calls]; status "nullptr" when no layer is returned. *)
createLayer(data, displayId, error) ==
    IF InvalidDisplay(data, displayId)
    THEN [status |-> "nullptr", calls |-> <<>>]
    ELSE [status |-> IF error # "NONE" THEN "nullptr" ELSE "layer",
          calls |-> <<"createLayer">>]

(* The error a device call of a frame step answered with, d being what the *)
(* device answers during the step; the has-pending-changes code of         *)
(* presentOrValidate is no error (hasChangesError), and waiting for the    *)
(* earliest present time is no device call.                                *)
DeviceError(d, call) ==
    CASE call = "presentOrValidate" ->
            IF hasChangesError(d.pvError) THEN "NONE" ELSE d.pvError
      [] call = "getReleaseFences" -> d.rfError
      [] call = "getChangedCompositionTypes" -> d.cctError
      [] call = "getRequests" -> d.reqError
      [] call = "getClientTargetProperty" -> d.ctpError
      [] call = "acceptChanges" -> d.accError
      [] call = "executeCommands" -> d.execError
      [] call = "present" -> d.presentError
      [] OTHER -> "NONE"

(* How often a call appears among the calls of a step. *)
Count(calls, call) == Cardinality({i \in 1..Len(calls) : calls[i] = call})

(* Which calls of a frame step the device failed, as a bit set over the    *)
(* positions in calls: bit i - 1 is set when calls[i] answered an error.   *)
RECURSIVE FailedCalls(_, _)
FailedCalls(calls, d) ==
    IF calls = <<>> THEN 0
    ELSE LET n == Len(calls)
         IN FailedCalls(SubSeq(calls, 1, n - 1), d) +
            (IF DeviceError(d, calls[n]) # "NONE" THEN 2 ^ (n - 1) ELSE 0)

(* What a caller finds in an output parameter the call did not write. *)
Unwritten == 0 - 1

(* The status_t a literal return value stands for: 0 is NO_ERROR. *)
statusOfLiteral(value) == IF value = 0 THEN "NO_ERROR" ELSE "UNKNOWN_ERROR"

(* The vsync periods the device reports, and the errors it answers a       *)
(* status-returning call with.                                             *)
VsyncPeriods == {1, 2}
StatusErrors == {"NONE", "UNSUPPORTED", "BAD_PARAMETER", "BAD_DISPLAY"}

(* isVsyncPeriodSwitchSupported: false without a record, else what the     *)
(* device display says.                                                    *)
isVsyncPeriodSwitchSupported(data, displayId, supported) ==
    IF InvalidDisplay(data, displayId) THEN FALSE ELSE supported

(* getDisplayVsyncPeriod: [status, out, calls]; out is *outVsyncPeriod as  *)
(* the caller finds it, error and vsyncPeriodNanos the device's answer.    *)
(* Both failure returns hand back the literal 0.                           *)
getDisplayVsyncPeriod(data, displayId, supported, error, vsyncPeriodNanos) ==
    IF InvalidDisplay(data, displayId)
    THEN [status |-> statusOfLiteral(0), out |-> Unwritten, calls |-> <<>>]
    ELSE IF ~isVsyncPeriodSwitchSupported(data, displayId, supported)
    THEN [status |-> "INVALID_OPERATION", out |-> Unwritten, calls |-> <<>>]
    ELSE IF error # "NONE"
    THEN [status |-> statusOfLiteral(0), out |-> Unwritten,
          calls |-> <<"getDisplayVsyncPeriod">>]
    ELSE [status |-> "NO_ERROR", out |-> vsyncPeriodNanos,
          calls |-> <<"getDisplayVsyncPeriod">>]

(* setAutoLowLatencyMode: [status, calls]; error is the device's answer. *)
setAutoLowLatencyMode(data, displayId, error) ==
    IF InvalidDisplay(data, displayId)
    THEN [status |-> "BAD_INDEX", calls |-> <<>>]
    ELSE [status |-> IF error = "UNSUPPORTED" THEN "INVALID_OPERATION"
                     ELSE IF error = "BAD_PARAMETER" THEN "BAD_VALUE"
                     ELSE IF error # "NONE" THEN "UNKNOWN_ERROR"
                     ELSE "NO_ERROR",
          calls |-> <<"setAutoLowLatencyMode">>]

(* What is known of the device display a record holds (hwcDisplay): the   *)
(* vsync state most recently applied to it with success, disabled when     *)
(* none was, and whether a setVsyncEnabled call is inside it.  A Display   *)
(* that allocatePhysicalDisplay or allocateVirtualDisplay has just made    *)
(* has had no state applied.                                               *)
NewHwcDisplay == [applied |-> FALSE, inCall |-> FALSE]

(* The device displays of the records of data: those already held, and a   *)
(* new one for each record that is new.                                    *)
TrackDisplays(data) ==
    [id \in DOMAIN data |-> IF id \in DOMAIN hwcVsync THEN hwcVsync[id] ELSE NewHwcDisplay]

----------------------------------------------------------------------------
(* State after construction *)

(* No onVsync call is in progress. *)
NoCall == [h |-> NoHandle, id |-> NoId, t |-> 0]

(* No setVsyncEnabled call is inside the device. *)
NoVsyncCall == [id |-> NoId, enabled |-> FALSE]

Broken == <<[h |-> NoHandle, has |-> FALSE, ret |-> NoId]>>

Init ==
    /\ mDisplayData = <<>>
    /\ mPhysicalDisplayIdMap = <<>>
    /\ mInternalHwcDisplayId = NoHandle
    /\ mExternalHwcDisplayId = NoHandle
    /\ mHasMultiDisplaySupport = FALSE
    /\ mUpdateDeviceProductInfoOnHotplugReconnect = FALSE
    /\ last = [op |-> "init", arg |-> 0, arg2 |-> 0, ret |-> 0, ok |-> TRUE,
               status |-> "", calls |-> <<>>]
    /\ log = <<>>
    /\ firstMode = "none"
    /\ fwd = <<>>
    /\ frameState = <<>>
    /\ hwcFrame = 0
    /\ hwcReleaseFences = <<>>
    /\ mMaxVirtualDisplayDimension = 0
    /\ mRegisteredCallback = FALSE
    /\ loads = 0
    /\ registrations = 0
    /\ inFlight = NoCall
    /\ vsyncCall = NoVsyncCall
    /\ hwcVsync = <<>>

SetRegistry(r) ==
    /\ mDisplayData' = r.data
    /\ mPhysicalDisplayIdMap' = r.map
    /\ mInternalHwcDisplayId' = r.internal
    /\ mExternalHwcDisplayId' = r.external
    /\ mHasMultiDisplaySupport' = r.multi

(* onHotplug(hwcDisplayId, CONNECTED) *)
HotplugConnect(hwcDisplayId, resp) ==
    LET out == onHotplugConnect(Registry, mUpdateDeviceProductInfoOnHotplugReconnect,
                                hwcDisplayId, resp)
    IN /\ SetRegistry(out.reg)
       /\ last' = [op |-> "connect", arg |-> hwcDisplayId,
                   arg2 |-> IF resp.has THEN 1 ELSE 0, ret |-> out.info.id,
                   ok |-> out.info # NoInfo, status |-> "", calls |-> out.calls]
       /\ log' = IF log # Broken /\ Len(log) < LogLen
                 THEN Append(log, [h |-> hwcDisplayId, has |-> resp.has,
                                   ret |-> out.info.id])
                 ELSE Broken
       /\ firstMode' = IF firstMode # "none" THEN firstMode
                       ELSE IF out.reg.multi THEN "generalized" ELSE "legacy"
       /\ fwd' = [id \in DOMAIN out.reg.data |->
                     IF id \in DOMAIN fwd THEN fwd[id] ELSE <<>>]
       /\ frameState' = [id \in DOMAIN out.reg.data |->
                            IF id \in DOMAIN frameState THEN frameState[id] ELSE NoState]
       /\ UNCHANGED <<mUpdateDeviceProductInfoOnHotplugReconnect, rest, hwcFrame, hwcReleaseFences>>
       /\ hwcVsync' = [id \in DOMAIN out.reg.data |->
                          IF out.info # NoInfo /\ id = out.info.id
                             /\ ~isConnected(mDisplayData, id)
                          THEN NewHwcDisplay ELSE hwcVsync[id]]

(* onHotplug(hwcDisplayId, DISCONNECTED) *)
HotplugDisconnect(hwcDisplayId) ==
    LET out == onHotplugDisconnect(Registry, hwcDisplayId)
    IN /\ SetRegistry(out.reg)
       /\ last' = [op |-> "disconnect", arg |-> hwcDisplayId, arg2 |-> 0,
                   ret |-> out.info.id, ok |-> out.info # NoInfo, status |-> "",
                   calls |-> <<>>]
       /\ log' = Broken
       /\ UNCHANGED <<mUpdateDeviceProductInfoOnHotplugReconnect, rest, firstMode, fwd,
                      frameState, hwcFrame, hwcReleaseFences, hwcVsync>>

(* onHotplug(hwcDisplayId, INVALID) *)
HotplugInvalid(hwcDisplayId) ==
    /\ last' = [op |-> "invalid", arg |-> hwcDisplayId, arg2 |-> 0, ret |-> NoId,
                ok |-> FALSE, status |-> "", calls |-> <<>>]
    /\ log' = Broken
    /\ UNCHANGED <<mDisplayData, mPhysicalDisplayIdMap, mInternalHwcDisplayId,
                   mExternalHwcDisplayId, mHasMultiDisplaySupport,
                   mUpdateDeviceProductInfoOnHotplugReconnect, rest, firstMode, fwd,
                   frameState, hwcFrame, hwcReleaseFences, hwcVsync>>

(* disconnectDisplay returns nothing: ret records the device handle of the *)
(* record it removed (NoHandle when it returned at the invalid-display     *)
(* check).                                                                 *)
DisconnectDisplay(displayId) ==
    /\ SetRegistry(disconnectDisplay(Registry, displayId))
    /\ last' = [op |-> "disconnectDisplay", arg |-> displayId, arg2 |-> 0,
                ret |-> IF InvalidDisplay(mDisplayData, displayId) THEN NoHandle
                        ELSE mDisplayData[displayId].hwcId,
                ok |-> TRUE,
                status |-> IF InvalidDisplay(mDisplayData, displayId)
                           THEN "Invalid display" ELSE "",
                calls |-> <<>>]
    /\ log' = Broken
    /\ fwd' = Erase(fwd, displayId)
    /\ frameState' = Erase(frameState, displayId)
    /\ UNCHANGED <<mUpdateDeviceProductInfoOnHotplugReconnect, rest, firstMode, hwcFrame, hwcReleaseFences>>
    /\ hwcVsync' = Erase(hwcVsync, displayId)

Timestamps == 0..MaxTime
HalErrors == {"NONE", "BAD_DISPLAY"}

OnVsync(hwcDisplayId, timestamp) ==
    LET out == onVsync(mDisplayData, mPhysicalDisplayIdMap, hwcDisplayId, timestamp)
        displayId == toPhysicalDisplayId(mPhysicalDisplayIdMap, hwcDisplayId)
    IN /\ mDisplayData' = out.data
       /\ last' = [op |-> "onVsync", arg |-> hwcDisplayId, arg2 |-> timestamp,
                   ret |-> 0, ok |-> out.ret, status |-> "", calls |-> <<>>]
       /\ fwd' = IF out.ret
                 THEN [fwd EXCEPT ![displayId] =
                          IF fwd[displayId] = <<>> THEN <<timestamp>>
                          ELSE <<fwd[displayId][Len(fwd[displayId])], timestamp>>]
                 ELSE fwd
       /\ log' = Broken
       /\ UNCHANGED <<mPhysicalDisplayIdMap, mInternalHwcDisplayId, mExternalHwcDisplayId,
                      mHasMultiDisplaySupport, mUpdateDeviceProductInfoOnHotplugReconnect, rest,
                      firstMode, frameState, hwcFrame, hwcReleaseFences, hwcVsync>>

SetVsyncEnabled(displayId, enabled, error) ==
    LET out == setVsyncEnabled(mDisplayData, displayId, enabled, error)
    IN /\ mDisplayData' = out.data
       /\ last' = [op |-> "setVsyncEnabled", arg |-> displayId,
                   arg2 |-> IF enabled THEN 1 ELSE 0, ret |-> 0, ok |-> TRUE,
                   status |-> out.ret, calls |-> out.calls]
       /\ log' = Broken
       /\ UNCHANGED <<mPhysicalDisplayIdMap, mInternalHwcDisplayId, mExternalHwcDisplayId,
                      mHasMultiDisplaySupport, mUpdateDeviceProductInfoOnHotplugReconnect, rest,
                      firstMode, fwd, frameState, hwcFrame, hwcReleaseFences>>
       /\ hwcVsync' = IF out.ret = "ok"
                      THEN [hwcVsync EXCEPT ![displayId].applied = enabled]
                      ELSE hwcVsync

(* One getDeviceCompositionChanges call.  The device presents a frame    *)
(* when presentOrValidate answers without a failure and reports state 1   *)
(* or 2.  ret records which of the device calls failed (FailedCalls).     *)
GetDeviceCompositionChanges(displayId, d) ==
    LET out == getDeviceCompositionChanges(mDisplayData, displayId, d, hwcFrame + 1)
        asked == out.calls # <<>>
        failed == ~hasChangesError(d.pvError) /\ d.pvError # "NONE"
    IN /\ hwcFrame < MaxFrame
       /\ mDisplayData' = out.data
       /\ last' = [op |-> "getDeviceCompositionChanges", arg |-> displayId,
                   arg2 |-> IF asked THEN d.state ELSE NoState,
                   ret |-> FailedCalls(out.calls, d),
                   ok |-> out.changes, status |-> out.status, calls |-> out.calls]
       /\ frameState' = IF asked
                        THEN [frameState EXCEPT ![displayId] =
                                 IF failed THEN NoState ELSE d.state]
                        ELSE frameState
       /\ hwcFrame' = IF asked /\ ~failed /\ (d.state = 1 \/ d.state = 2)
                      THEN hwcFrame + 1 ELSE hwcFrame
       /\ hwcReleaseFences' = IF Count(out.calls, "getReleaseFences") > 0
                              THEN ReleaseFences(d.rfError, d.layers, hwcFrame + 1)
                              ELSE hwcReleaseFences
       /\ log' = Broken
       /\ UNCHANGED <<mPhysicalDisplayIdMap, mInternalHwcDisplayId, mExternalHwcDisplayId,
                      mHasMultiDisplaySupport, mUpdateDeviceProductInfoOnHotplugReconnect, rest,
                      firstMode, fwd, hwcVsync>>

(* One presentAndGetReleaseFences call; arg2 records the state code the    *)
(* display's latest negotiation had obtained, ret which of the device      *)
(* calls failed (FailedCalls).                                             *)
PresentAndGetReleaseFences(displayId, d) ==
    LET out == presentAndGetReleaseFences(mDisplayData, displayId, d, hwcFrame + 1)
    IN /\ hwcFrame < MaxFrame
       /\ mDisplayData' = out.data
       /\ last' = [op |-> "presentAndGetReleaseFences", arg |-> displayId,
                   arg2 |-> IF displayId \in DOMAIN frameState
                            THEN frameState[displayId] ELSE NoState,
                   ret |-> FailedCalls(out.calls, d),
                   ok |-> out.status = "NO_ERROR", status |-> out.status,
                   calls |-> out.calls]
       /\ frameState' = IF displayId \in DOMAIN frameState
                        THEN [frameState EXCEPT ![displayId] = NoState]
                        ELSE frameState
       /\ hwcFrame' = IF out.calls # <<>> /\ out.calls[Len(out.calls)] = "getReleaseFences"
                      THEN hwcFrame + 1 ELSE hwcFrame
       /\ hwcReleaseFences' = IF Count(out.calls, "getReleaseFences") > 0
                              THEN ReleaseFences(d.rfError, d.layers, hwcFrame + 1)
                              ELSE hwcReleaseFences
       /\ log' = Broken
       /\ UNCHANGED <<mPhysicalDisplayIdMap, mInternalHwcDisplayId, mExternalHwcDisplayId,
                      mHasMultiDisplaySupport, mUpdateDeviceProductInfoOnHotplugReconnect, rest,
                      firstMode, fwd, hwcVsync>>

SetClientTarget(displayId, error) ==
    LET out == setClientTarget(mDisplayData, displayId, error)
    IN /\ last' = [op |-> "setClientTarget", arg |-> displayId, arg2 |-> 0, ret |-> 0,
                   ok |-> out.status = "NO_ERROR", status |-> out.status,
                   calls |-> out.calls]
       /\ log' = Broken
       /\ UNCHANGED <<mDisplayData, mPhysicalDisplayIdMap, mInternalHwcDisplayId,
                      mExternalHwcDisplayId, mHasMultiDisplaySupport,
                      mUpdateDeviceProductInfoOnHotplugReconnect, rest, firstMode, fwd,
                      frameState, hwcFrame, hwcReleaseFences, hwcVsync>>

(* The layers a caller asks fences for: those of the frames and one the    *)
(* device never reports a fence for.                                       *)
QueriedLayers == FrameLayers \cup {2}

(* getLayerReleaseFence(displayId, layer): ret is the fence returned. *)
GetLayerReleaseFence(displayId, layer) ==
    /\ last' = [op |-> "getLayerReleaseFence", arg |-> displayId, arg2 |-> layer,
                ret |-> getLayerReleaseFence(mDisplayData, displayId, layer),
                ok |-> TRUE, status |-> "", calls |-> <<>>]
    /\ log' = Broken
    /\ UNCHANGED <<mDisplayData, mPhysicalDisplayIdMap, mInternalHwcDisplayId,
                   mExternalHwcDisplayId, mHasMultiDisplaySupport,
                   mUpdateDeviceProductInfoOnHotplugReconnect, rest, firstMode, fwd,
                   frameState, hwcFrame, hwcReleaseFences, hwcVsync>>

ClearReleaseFences(displayId) ==
    /\ mDisplayData' = clearReleaseFences(mDisplayData, displayId)
    /\ last' = [op |-> "clearReleaseFences", arg |-> displayId, arg2 |-> 0, ret |-> 0,
                ok |-> TRUE,
                status |-> IF InvalidDisplay(mDisplayData, displayId)
                           THEN "Invalid display" ELSE "",
                calls |-> <<>>]
    /\ log' = Broken
    /\ fwd' = [id \in DOMAIN mDisplayData' |-> IF id \in DOMAIN fwd THEN fwd[id] ELSE <<>>]
    /\ frameState' = [id \in DOMAIN mDisplayData' |->
                         IF id \in DOMAIN frameState THEN frameState[id] ELSE NoState]
    /\ UNCHANGED <<mPhysicalDisplayIdMap, mInternalHwcDisplayId, mExternalHwcDisplayId,
                   mHasMultiDisplaySupport, mUpdateDeviceProductInfoOnHotplugReconnect, rest,
                   firstMode, hwcFrame, hwcReleaseFences, hwcVsync>>

SetPowerMode(displayId, mode, supportsDoze) ==
    LET out == setPowerMode(mDisplayData, displayId, mode, supportsDoze)
    IN /\ last' = [op |-> "setPowerMode", arg |-> displayId, arg2 |-> 0, ret |-> 0,
                   ok |-> out.status = "NO_ERROR", status |-> out.status,
                   calls |-> out.calls]
       /\ log' = Broken
       /\ UNCHANGED <<mDisplayData, mPhysicalDisplayIdMap, mInternalHwcDisplayId,
                      mExternalHwcDisplayId, mHasMultiDisplaySupport,
                      mUpdateDeviceProductInfoOnHotplugReconnect, rest, firstMode, fwd,
                      frameState, hwcFrame, hwcReleaseFences, hwcVsync>>

CreateLayer(displayId, error) ==
    LET out == createLayer(mDisplayData, displayId, error)
    IN /\ last' = [op |-> "createLayer", arg |-> displayId, arg2 |-> 0, ret |-> 0,
                   ok |-> out.status = "layer", status |-> out.status,
                   calls |-> out.calls]
       /\ log' = Broken
       /\ UNCHANGED <<mDisplayData, mPhysicalDisplayIdMap, mInternalHwcDisplayId,
                      mExternalHwcDisplayId, mHasMultiDisplaySupport,
                      mUpdateDeviceProductInfoOnHotplugReconnect, rest, firstMode, fwd,
                      frameState, hwcFrame, hwcReleaseFences, hwcVsync>>

(* The identities of virtual displays (a family of its own), the handles  *)
(* the device gives to virtual displays, and the sizes asked for.          *)
VirtualIds == {200}
VirtualHandles == {NumHandles + 2, NumHandles + 3}
Sizes == 0..MaxSize
Dimensions == {0, 2}

(* allocateVirtualDisplay(displayId, {width, height}, ...): arg2 and ret   *)
(* record the width and the height asked for.                              *)
AllocateVirtualDisplay(displayId, width, height, error, hwcDisplayId) ==
    LET out == allocateVirtualDisplay(Registry, mMaxVirtualDisplayDimension, displayId,
                                      width, height, error, hwcDisplayId)
    IN /\ SetRegistry(out.reg)
       /\ last' = [op |-> "allocateVirtualDisplay", arg |-> displayId, arg2 |-> width,
                   ret |-> height, ok |-> out.ret, status |-> "", calls |-> out.calls]
       /\ log' = Broken
       /\ fwd' = [id \in DOMAIN out.reg.data |->
                     IF id \in DOMAIN fwd THEN fwd[id] ELSE <<>>]
       /\ frameState' = [id \in DOMAIN out.reg.data |->
                            IF id \in DOMAIN frameState THEN frameState[id] ELSE NoState]
       /\ UNCHANGED <<mUpdateDeviceProductInfoOnHotplugReconnect, rest, firstMode, hwcFrame, hwcReleaseFences>>
       /\ hwcVsync' = TrackDisplays(out.reg.data)

(* onVsync as the callback thread runs it next to the frame thread: the   *)
(* file takes no lock around mDisplayData or mPhysicalDisplayIdMap, so     *)
(* the call is two steps.  OnVsyncEnter is the translation of the handle   *)
(* and the invalid-display check (lines 206-212); when both pass, the call *)
(* is in flight.                                                           *)
OnVsyncEnter(hwcDisplayId, timestamp) ==
    LET displayId == toPhysicalDisplayId(mPhysicalDisplayIdMap, hwcDisplayId)
        passes == displayId # NoId /\ ~InvalidDisplay(mDisplayData, displayId)
    IN /\ inFlight = NoCall
       /\ inFlight' = IF passes
                      THEN [h |-> hwcDisplayId, id |-> displayId, t |-> timestamp]
                      ELSE NoCall
       /\ last' = [op |-> IF passes THEN "onVsync enter" ELSE "onVsync",
                   arg |-> hwcDisplayId, arg2 |-> timestamp, ret |-> 0, ok |-> FALSE,
                   status |-> "", calls |-> <<>>]
       /\ log' = Broken
       /\ UNCHANGED <<mDisplayData, mPhysicalDisplayIdMap, mInternalHwcDisplayId,
                      mExternalHwcDisplayId, mHasMultiDisplaySupport,
                      mUpdateDeviceProductInfoOnHotplugReconnect, firstMode, fwd,
                      frameState, hwcFrame, hwcReleaseFences, mMaxVirtualDisplayDimension,
                      mRegisteredCallback, loads, registrations,
                   vsyncCall, hwcVsync>>

(* OnVsyncFinish is the rest of the call (lines 214-236), run on the       *)
(* record mDisplayData[*displayId].  If the frame thread erased the record *)
(* in between, the access races with the erase: operator[] inserts a       *)
(* value-initialized record, which the filter then works on, or the call   *)
(* works on the memory of the erased record, leaves the registry as it is  *)
(* and returns either value.                                               *)
OnVsyncFinish ==
    /\ inFlight # NoCall
    /\ inFlight' = NoCall
    /\ \/ /\ ~InvalidDisplay(mDisplayData, inFlight.id)
          /\ LET out == onVsync(mDisplayData, Put(<<>>, inFlight.h, inFlight.id),
                                inFlight.h, inFlight.t)
             IN /\ mDisplayData' = out.data
                /\ last' = [op |-> "onVsync", arg |-> inFlight.h, arg2 |-> inFlight.t,
                            ret |-> 0, ok |-> out.ret, status |-> "", calls |-> <<>>]
       \/ /\ InvalidDisplay(mDisplayData, inFlight.id)
          /\ LET fresh == [NewDisplayData(NoHandle, FALSE) EXCEPT !.connected = FALSE]
                 out == onVsync(Put(mDisplayData, inFlight.id, fresh),
                                Put(<<>>, inFlight.h, inFlight.id),
                                inFlight.h, inFlight.t)
             IN /\ mDisplayData' = out.data
                /\ last' = [op |-> "onVsync", arg |-> inFlight.h, arg2 |-> inFlight.t,
                            ret |-> 0, ok |-> out.ret, status |-> "raced",
                            calls |-> <<>>]
       \/ /\ InvalidDisplay(mDisplayData, inFlight.id)
          /\ \E forwarded \in BOOLEAN :
                /\ mDisplayData' = mDisplayData
                /\ last' = [op |-> "onVsync", arg |-> inFlight.h, arg2 |-> inFlight.t,
                            ret |-> 0, ok |-> forwarded, status |-> "raced",
                            calls |-> <<>>]
    /\ log' = Broken
    /\ fwd' = [id \in DOMAIN mDisplayData' |-> IF id \in DOMAIN fwd THEN fwd[id] ELSE <<>>]
    /\ frameState' = [id \in DOMAIN mDisplayData' |->
                         IF id \in DOMAIN frameState THEN frameState[id] ELSE NoState]
    /\ UNCHANGED <<mPhysicalDisplayIdMap, mInternalHwcDisplayId, mExternalHwcDisplayId,
                   mHasMultiDisplaySupport, mUpdateDeviceProductInfoOnHotplugReconnect,
                   firstMode, hwcFrame, hwcReleaseFences, mMaxVirtualDisplayDimension,
                   mRegisteredCallback, loads, registrations,
                   vsyncCall>>
    /\ hwcVsync' = TrackDisplays(mDisplayData')

(* setCallback: loadCapabilities and loadLayerMetadataSupport run first,   *)
(* then the call returns if a callback is registered already, and          *)
(* registers with the device otherwise.                                    *)
SetCallback ==
    /\ loads < MaxSetCallback
    /\ loads' = loads + 1
    /\ mRegisteredCallback' = TRUE
    /\ registrations' = IF mRegisteredCallback THEN registrations ELSE registrations + 1
    /\ last' = [op |-> "setCallback", arg |-> 0, arg2 |-> 0, ret |-> 0,
                ok |-> ~mRegisteredCallback, status |-> "",
                calls |-> <<"getCapabilities", "getLayerGenericMetadataKeys">> \o
                          (IF mRegisteredCallback THEN <<>> ELSE <<"registerCallback">>)]
    /\ log' = Broken
    /\ UNCHANGED <<mDisplayData, mPhysicalDisplayIdMap, mInternalHwcDisplayId,
                   mExternalHwcDisplayId, mHasMultiDisplaySupport,
                   mUpdateDeviceProductInfoOnHotplugReconnect, firstMode, fwd,
                   frameState, hwcFrame, hwcReleaseFences, mMaxVirtualDisplayDimension, inFlight,
                   vsyncCall, hwcVsync>>

(* Mutant: one lock for all displays is held during the device call. *)
vsyncEnabledLock_Registry(call, displayId) == call # NoVsyncCall

(* Whether displayData.vsyncEnabledLock of the display is held: it is the  *)
(* only lock setVsyncEnabled takes, and it is held from the comparison     *)
(* with the stored flag to the return, the device call included.           *)
vsyncEnabledLock(call, displayId) == call # NoVsyncCall /\ call.id = displayId

(* setVsyncEnabled next to other threads.  SetVsyncEnabledEnter is the     *)
(* call up to the device call (lines 438-454): the display has a record,   *)
(* the lock of the record is taken and the flag differs, so the device is  *)
(* called; the device may take any time to answer.                         *)
SetVsyncEnabledEnter(displayId, enabled) ==
    /\ vsyncCall = NoVsyncCall
    /\ ~InvalidDisplay(mDisplayData, displayId)
    /\ ~vsyncEnabledLock(vsyncCall, displayId)
    /\ enabled # mDisplayData[displayId].vsyncEnabled
    /\ vsyncCall' = [id |-> displayId, enabled |-> enabled]
    /\ last' = [op |-> "setVsyncEnabled enter", arg |-> displayId,
                arg2 |-> IF enabled THEN 1 ELSE 0, ret |-> 0, ok |-> FALSE,
                status |-> "", calls |-> <<"setVsyncEnabled">>]
    /\ log' = Broken
    /\ UNCHANGED <<mDisplayData, mPhysicalDisplayIdMap, mInternalHwcDisplayId,
                   mExternalHwcDisplayId, mHasMultiDisplaySupport,
                   mUpdateDeviceProductInfoOnHotplugReconnect, firstMode, fwd,
                   frameState, hwcFrame, hwcReleaseFences, mMaxVirtualDisplayDimension,
                   mRegisteredCallback, loads, registrations, inFlight>>
    /\ hwcVsync' = [hwcVsync EXCEPT ![displayId].inCall = TRUE]

(* SetVsyncEnabledFinish is the rest of the call (lines 455-460): the      *)
(* device has answered, the flag is stored unless the answer is an error,  *)
(* and the lock is released.                                               *)
SetVsyncEnabledFinish(error) ==
    /\ vsyncCall # NoVsyncCall
    /\ LET out == setVsyncEnabled(mDisplayData, vsyncCall.id, vsyncCall.enabled, error)
       IN /\ mDisplayData' = out.data
          /\ last' = [op |-> "setVsyncEnabled", arg |-> vsyncCall.id,
                      arg2 |-> IF vsyncCall.enabled THEN 1 ELSE 0, ret |-> 0, ok |-> TRUE,
                      status |-> out.ret, calls |-> out.calls]
    /\ vsyncCall' = NoVsyncCall
    /\ log' = Broken
    /\ UNCHANGED <<mPhysicalDisplayIdMap, mInternalHwcDisplayId, mExternalHwcDisplayId,
                   mHasMultiDisplaySupport, mUpdateDeviceProductInfoOnHotplugReconnect,
                   firstMode, fwd, frameState, hwcFrame, hwcReleaseFences,
                   mMaxVirtualDisplayDimension, mRegisteredCallback, loads, registrations,
                   inFlight>>
    /\ hwcVsync' =
          IF vsyncCall.id \notin DOMAIN hwcVsync THEN hwcVsync
          ELSE [hwcVsync EXCEPT ![vsyncCall.id] =
                   [applied |-> IF @.inCall /\ error = "NONE"
                                THEN vsyncCall.enabled ELSE @.applied,
                    inCall |-> FALSE]]

(* A whole setVsyncEnabled call of another thread: it waits at line 448    *)
(* while the lock of the record is held.                                   *)
ThreadSetVsyncEnabled(displayId, enabled, error) ==
    /\ ~vsyncEnabledLock(vsyncCall, displayId)
    /\ SetVsyncEnabled(displayId, enabled, error)

(* Why a status-returning call failed, as last.arg2 records it: the        *)
(* identity had no record, or the device call failed.                      *)
NoFailure == 0
NoRecord == 1
DeviceCallFailed == 2

failureOf(data, displayId, calls, error) ==
    IF InvalidDisplay(data, displayId) THEN NoRecord
    ELSE IF calls # <<>> /\ error # "NONE" THEN DeviceCallFailed
    ELSE NoFailure

(* One getDisplayVsyncPeriod call; ret is the output parameter afterwards. *)
GetDisplayVsyncPeriod(displayId, supported, error, vsyncPeriodNanos) ==
    LET out == getDisplayVsyncPeriod(mDisplayData, displayId, supported, error,
                                     vsyncPeriodNanos)
    IN /\ last' = [op |-> "getDisplayVsyncPeriod", arg |-> displayId,
                   arg2 |-> failureOf(mDisplayData, displayId, out.calls, error),
                   ret |-> out.out, ok |-> out.status = "NO_ERROR",
                   status |-> out.status, calls |-> out.calls]
       /\ log' = Broken
       /\ UNCHANGED <<mDisplayData, mPhysicalDisplayIdMap, mInternalHwcDisplayId,
                      mExternalHwcDisplayId, mHasMultiDisplaySupport,
                      mUpdateDeviceProductInfoOnHotplugReconnect, rest, firstMode, fwd,
                      frameState, hwcFrame, hwcReleaseFences, hwcVsync>>

(* One setAutoLowLatencyMode call; it has no output parameter. *)
SetAutoLowLatencyMode(displayId, error) ==
    LET out == setAutoLowLatencyMode(mDisplayData, displayId, error)
    IN /\ last' = [op |-> "setAutoLowLatencyMode", arg |-> displayId,
                   arg2 |-> failureOf(mDisplayData, displayId, out.calls, error),
                   ret |-> 0, ok |-> out.status = "NO_ERROR",
                   status |-> out.status, calls |-> out.calls]
       /\ log' = Broken
       /\ UNCHANGED <<mDisplayData, mPhysicalDisplayIdMap, mInternalHwcDisplayId,
                      mExternalHwcDisplayId, mHasMultiDisplaySupport,
                      mUpdateDeviceProductInfoOnHotplugReconnect, rest, firstMode, fwd,
                      frameState, hwcFrame, hwcReleaseFences, hwcVsync>>

Next ==
    \/ \E h \in Handles, resp \in IdentResponses : HotplugConnect(h, resp)
    \/ \E h \in Handles : HotplugDisconnect(h)
    \/ \E h \in Handles : HotplugInvalid(h)
    \/ \E id \in PhysicalIds : DisconnectDisplay(id)

Spec == Init /\ [][Next]_vars

(* Three device handles, and a device that never has identification data. *)
NextLegacy ==
    \/ \E h \in LegacyHandles : HotplugConnect(h, NoData)
    \/ \E h \in LegacyHandles : HotplugDisconnect(h)
    \/ \E id \in PhysicalIds : DisconnectDisplay(id)

SpecLegacy == Init /\ [][NextLegacy]_vars

(* The vsync filter and the vsync switch, over displays that come and go. *)
VsyncHandles == {1}
LegacyIds == {fromPort(LEGACY_DISPLAY_TYPE_PRIMARY), fromPort(LEGACY_DISPLAY_TYPE_EXTERNAL)}

NextVsync ==
    \/ \E h \in VsyncHandles : HotplugConnect(h, NoData)
    \/ \E h \in VsyncHandles : HotplugDisconnect(h)
    \/ \E id \in LegacyIds : DisconnectDisplay(id)
    \/ \E h \in Handles, t \in Timestamps : OnVsync(h, t)
    \/ \E id \in LegacyIds, enabled \in BOOLEAN, error \in HalErrors :
          SetVsyncEnabled(id, enabled, error)

SpecVsync == Init /\ [][NextVsync]_vars

(* The frame negotiation of one display that comes and goes. *)
NextFrame ==
    \/ \E h \in VsyncHandles : HotplugConnect(h, NoData)
    \/ \E h \in VsyncHandles : HotplugDisconnect(h)
    \/ \E id \in LegacyIds : DisconnectDisplay(id)
    \/ \E id \in LegacyIds, d \in ValidateAnswers : GetDeviceCompositionChanges(id, d)
    \/ \E id \in LegacyIds, d \in PresentAnswers : PresentAndGetReleaseFences(id, d)
    \/ \E id \in LegacyIds, error \in HalErrors : SetClientTarget(id, error)

SpecFrame == Init /\ [][NextFrame]_vars

(* Every display-scoped operation of the model, on one display that comes *)
(* and goes and on an identity that never has a record; the device serves  *)
(* the queries that follow a validation.                                   *)
OpsValidateAnswers ==
    {d \in ValidateAnswers :
        d.cctError = "NONE" /\ d.reqError = "NONE" /\ d.ctpError = "NONE"}

NextOps ==
    \/ \E h \in VsyncHandles : HotplugConnect(h, NoData)
    \/ \E h \in VsyncHandles : HotplugDisconnect(h)
    \/ \E id \in LegacyIds : DisconnectDisplay(id)
    \/ \E id \in LegacyIds, d \in OpsValidateAnswers : GetDeviceCompositionChanges(id, d)
    \/ \E id \in LegacyIds, d \in PresentAnswers : PresentAndGetReleaseFences(id, d)
    \/ \E id \in LegacyIds, error \in HalErrors : SetClientTarget(id, error)
    \/ \E id \in LegacyIds, enabled \in BOOLEAN, error \in HalErrors :
          SetVsyncEnabled(id, enabled, error)
    \/ \E id \in LegacyIds, layer \in QueriedLayers : GetLayerReleaseFence(id, layer)
    \/ \E id \in LegacyIds : ClearReleaseFences(id)
    \/ \E id \in LegacyIds, mode \in PowerModes, supportsDoze \in BOOLEAN :
          SetPowerMode(id, mode, supportsDoze)
    \/ \E id \in LegacyIds, error \in HalErrors : CreateLayer(id, error)

SpecOps == Init /\ [][NextOps]_vars

(* Virtual displays next to physical ones; the constructor has read either *)
(* maximum dimension.                                                      *)
InitVirtual ==
    /\ mDisplayData = <<>>
    /\ mPhysicalDisplayIdMap = <<>>
    /\ mInternalHwcDisplayId = NoHandle
    /\ mExternalHwcDisplayId = NoHandle
    /\ mHasMultiDisplaySupport = FALSE
    /\ mUpdateDeviceProductInfoOnHotplugReconnect = FALSE
    /\ last = [op |-> "init", arg |-> 0, arg2 |-> 0, ret |-> 0, ok |-> TRUE,
               status |-> "", calls |-> <<>>]
    /\ log = <<>>
    /\ firstMode = "none"
    /\ fwd = <<>>
    /\ frameState = <<>>
    /\ hwcFrame = 0
    /\ hwcReleaseFences = <<>>
    /\ mMaxVirtualDisplayDimension \in Dimensions
    /\ mRegisteredCallback = FALSE
    /\ loads = 0
    /\ registrations = 0
    /\ inFlight = NoCall
    /\ vsyncCall = NoVsyncCall
    /\ hwcVsync = <<>>

NextVirtual ==
    \/ \E h \in Handles : HotplugConnect(h, NoData)
    \/ \E h \in Handles : HotplugDisconnect(h)
    \/ \E id \in LegacyIds \cup VirtualIds : DisconnectDisplay(id)
    \/ \E id \in VirtualIds, width \in Sizes, height \in Sizes, error \in HalErrors,
          h \in VirtualHandles : AllocateVirtualDisplay(id, width, height, error, h)

SpecVirtual == InitVirtual /\ [][NextVirtual]_vars

(* The hotplug resolver with either setting of the reconnect option. *)
InitReconnect ==
    /\ mDisplayData = <<>>
    /\ mPhysicalDisplayIdMap = <<>>
    /\ mInternalHwcDisplayId = NoHandle
    /\ mExternalHwcDisplayId = NoHandle
    /\ mHasMultiDisplaySupport = FALSE
    /\ mUpdateDeviceProductInfoOnHotplugReconnect \in BOOLEAN
    /\ last = [op |-> "init", arg |-> 0, arg2 |-> 0, ret |-> 0, ok |-> TRUE,
               status |-> "", calls |-> <<>>]
    /\ log = <<>>
    /\ firstMode = "none"
    /\ fwd = <<>>
    /\ frameState = <<>>
    /\ hwcFrame = 0
    /\ hwcReleaseFences = <<>>
    /\ mMaxVirtualDisplayDimension = 0
    /\ mRegisteredCallback = FALSE
    /\ loads = 0
    /\ registrations = 0
    /\ inFlight = NoCall
    /\ vsyncCall = NoVsyncCall
    /\ hwcVsync = <<>>

SpecReconnect == InitReconnect /\ [][Next]_vars

(* Two threads: the callback thread delivers hotplug and vsync events one *)
(* at a time; the frame thread calls disconnectDisplay at any moment, also *)
(* while an onVsync call is in flight.                                     *)
CallbackHotplugConnect(hwcDisplayId, resp) ==
    inFlight = NoCall /\ HotplugConnect(hwcDisplayId, resp)

CallbackHotplugDisconnect(hwcDisplayId) ==
    inFlight = NoCall /\ HotplugDisconnect(hwcDisplayId)

NextThreads ==
    \/ \E h \in VsyncHandles : CallbackHotplugConnect(h, NoData)
    \/ \E h \in VsyncHandles : CallbackHotplugDisconnect(h)
    \/ \E h \in Handles, t \in Timestamps : OnVsyncEnter(h, t)
    \/ OnVsyncFinish
    \/ \E id \in LegacyIds : DisconnectDisplay(id)

SpecThreads == Init /\ [][NextThreads]_vars

(* Callback registration, before and between hotplug events. *)
NextCallback ==
    \/ SetCallback
    \/ \E h \in Handles : HotplugConnect(h, NoData)
    \/ \E h \in Handles : HotplugDisconnect(h)
    \/ \E id \in LegacyIds : DisconnectDisplay(id)

SpecCallback == Init /\ [][NextCallback]_vars

(* Threads around the vsync switch: one thread may be inside the device   *)
(* with a setVsyncEnabled call while other threads switch vsync, and the   *)
(* callback thread delivers vsync and hotplug events; no display is        *)
(* destroyed, and the vsync events carry one timestamp.                    *)
LockTimestamps == {MaxTime}

NextLocks ==
    \/ \E h \in Handles : HotplugConnect(h, NoData)
    \/ \E h \in Handles : HotplugDisconnect(h)
    \/ \E h \in Handles, t \in LockTimestamps : OnVsync(h, t)
    \/ \E id \in LegacyIds, enabled \in BOOLEAN : SetVsyncEnabledEnter(id, enabled)
    \/ \E error \in HalErrors : SetVsyncEnabledFinish(error)
    \/ \E id \in LegacyIds, enabled \in BOOLEAN, error \in HalErrors :
          ThreadSetVsyncEnabled(id, enabled, error)

SpecLocks == Init /\ [][NextLocks]_vars

(* The status-returning queries and settings, on displays that come and   *)
(* go and on identities that have no record.                               *)
NextStatus ==
    \/ \E h \in Handles : HotplugConnect(h, NoData)
    \/ \E h \in Handles : HotplugDisconnect(h)
    \/ \E id \in LegacyIds : DisconnectDisplay(id)
    \/ \E id \in LegacyIds, supported \in BOOLEAN, error \in StatusErrors,
          period \in VsyncPeriods : GetDisplayVsyncPeriod(id, supported, error, period)
    \/ \E id \in LegacyIds, error \in StatusErrors : SetAutoLowLatencyMode(id, error)

SpecStatus == Init /\ [][NextStatus]_vars

----------------------------------------------------------------------------
(* Claims *)

(* C1: for every physical display that has a record, a bare hotplug        *)
(* DISCONNECTED for its handle keeps the record, leaves it marked          *)
(* disconnected and keeps the handle translating to the identity; after    *)
(* disconnectDisplay(identity) the record is gone: the identity is invalid *)
(* for every display operation and isConnected is false.                   *)
C1_DisconnectKeepsRecordDestroyRemovesIt ==
    [][ /\ \A h \in LegacyHandles :
             (/\ last'.op = "disconnect" /\ last'.arg = h
              /\ h \in DOMAIN mPhysicalDisplayIdMap
              /\ mPhysicalDisplayIdMap[h] \in DOMAIN mDisplayData)
             => LET id == mPhysicalDisplayIdMap[h]
                IN /\ id \in DOMAIN mDisplayData'
                   /\ ~mDisplayData'[id].connected
                   /\ ~isConnected(mDisplayData', id)
                   /\ toPhysicalDisplayId(mPhysicalDisplayIdMap', h) = id
                   /\ last'.ret = id
        /\ \A id \in PhysicalIds :
             (last'.op = "disconnectDisplay" /\ last'.arg = id)
             => /\ InvalidDisplay(mDisplayData', id)
                /\ ~isConnected(mDisplayData', id) ]_vars

(* C1 witness: a record was just destroyed by disconnectDisplay while      *)
(* another display, disconnected by a bare hotplug event, keeps its record.*)
C1_Witness ==
    /\ last.op = "disconnectDisplay" /\ last.ret # NoHandle
    /\ \E id \in DOMAIN mDisplayData :
          /\ ~mDisplayData[id].connected
          /\ \E h \in DOMAIN mPhysicalDisplayIdMap : mPhysicalDisplayIdMap[h] = id

(* C2: whenever presentOrValidate reports state 1 (committed, no changes) *)
(* without a failure, getDeviceCompositionChanges returns success, leaves  *)
(* outChanges unpopulated and calls none of getChangedCompositionTypes,    *)
(* getRequests and acceptChanges; and the presentAndGetReleaseFences that  *)
(* follows for that display issues executeCommands and no device present.  *)
C2_FastPathSkipsNegotiationAndPresent ==
    /\ \A id \in DOMAIN frameState :
          (/\ last.op = "getDeviceCompositionChanges" /\ last.arg = id
           /\ last.arg2 = 1 /\ frameState[id] = 1)
          => /\ last.status = "NO_ERROR"
             /\ ~last.ok
             /\ \A i \in 1..Len(last.calls) :
                   last.calls[i] \notin {"getChangedCompositionTypes", "getRequests",
                                         "acceptChanges"}
    /\ (last.op = "presentAndGetReleaseFences" /\ last.arg2 = 1)
          => /\ last.calls = <<"executeCommands">>
             /\ \A i \in 1..Len(last.calls) : last.calls[i] # "present"

(* C2 witness: the negotiation obtained state 1 and the present that      *)
(* followed has just returned success after flushing the commands.         *)
C2_Witness ==
    /\ last.op = "presentAndGetReleaseFences" /\ last.arg2 = 1
    /\ last.status = "NO_ERROR"
    /\ last.calls = <<"executeCommands">>
    /\ last.arg \in DOMAIN mDisplayData
    /\ mDisplayData[last.arg].lastPresentFence # NoFence

(* C3: within one getDeviceCompositionChanges call acceptChanges is called *)
(* exactly once when outChanges was populated and the reported state is    *)
(* not 2, never when the reported state is 1 or 2, and never more than     *)
(* once.                                                                   *)
C3_AcceptChangesOnceUnlessCommitted ==
    last.op = "getDeviceCompositionChanges"
    => LET accepts == Cardinality({i \in 1..Len(last.calls) :
                                      last.calls[i] = "acceptChanges"})
       IN /\ accepts <= 1
          /\ ((last.ok /\ last.arg2 # 2) => accepts = 1)
          /\ (last.arg2 \in {1, 2} => accepts = 0)

(* C3 witness: a call that obtained state 0 has just populated outChanges *)
(* and accepted them, acceptChanges being its last device call.            *)
C3_Witness ==
    /\ last.op = "getDeviceCompositionChanges" /\ last.arg2 = 0
    /\ last.ok /\ last.status = "NO_ERROR"
    /\ last.calls[Len(last.calls)] = "acceptChanges"

(* C4 (as claimed): once a first connection has selected the addressing    *)
(* mode, the mode flag equals that selection in every later state.         *)
C4_ModeIsPermanent ==
    firstMode # "none" => (mHasMultiDisplaySupport = (firstMode = "generalized"))

(* C5: from the constructed state, connecting three distinct handles A, B, *)
(* C in that order without identification data gives A the primary         *)
(* identity, B the external identity, and ignores C: no identity is        *)
(* returned, and no record and no handle mapping exist for C.              *)
C5_LegacyThirdConnectIgnored ==
    (/\ log # Broken /\ Len(log) >= 3
     /\ \A i \in 1..3 : ~log[i].has
     /\ Cardinality({log[i].h : i \in 1..3}) = 3)
    => /\ log[1].ret = fromPort(LEGACY_DISPLAY_TYPE_PRIMARY)
       /\ log[2].ret = fromPort(LEGACY_DISPLAY_TYPE_EXTERNAL)
       /\ log[3].ret = NoId
       /\ ~mHasMultiDisplaySupport
       /\ (Len(log) = 3 =>
             /\ log[3].h \notin DOMAIN mPhysicalDisplayIdMap
             /\ \A id \in DOMAIN mDisplayData : mDisplayData[id].hwcId # log[3].h
             /\ DOMAIN mDisplayData = {fromPort(LEGACY_DISPLAY_TYPE_PRIMARY),
                                       fromPort(LEGACY_DISPLAY_TYPE_EXTERNAL)}
             /\ mDisplayData[fromPort(LEGACY_DISPLAY_TYPE_PRIMARY)].hwcId = log[1].h
             /\ mDisplayData[fromPort(LEGACY_DISPLAY_TYPE_EXTERNAL)].hwcId = log[2].h)

(* C5 witness: three distinct handles have just connected, in order,       *)
(* without identification data.                                            *)
C5_Witness ==
    /\ log # Broken /\ Len(log) = 3
    /\ \A i \in 1..3 : ~log[i].has
    /\ Cardinality({log[i].h : i \in 1..3}) = 3
    /\ last.op = "connect" /\ last.arg = log[3].h

(* C6 (as claimed): after disconnectDisplay removes a display, no tracked  *)
(* slot still holds the removed handle, and in legacy mode a new hotplug   *)
(* connect is then not ignored.                                            *)
C6_RemovedHandleLeavesSlots ==
    (last.op = "disconnectDisplay" /\ last.ret # NoHandle)
    => /\ mInternalHwcDisplayId # last.ret
       /\ mExternalHwcDisplayId # last.ret
       /\ (~mHasMultiDisplaySupport =>
             \A h \in LegacyHandles \ DOMAIN mPhysicalDisplayIdMap :
                onHotplugConnect(Registry, mUpdateDeviceProductInfoOnHotplugReconnect,
                                 h, NoData).info.id # NoId)

(* C7 (as claimed): after disconnectDisplay(identity) removed a record, no *)
(* device handle translates to the identity and the identity translates to *)
(* no handle.                                                              *)
C7_DestroyRemovesMappingAndRecord ==
    (last.op = "disconnectDisplay" /\ last.ret # NoHandle)
    => /\ \A h \in LegacyHandles : toPhysicalDisplayId(mPhysicalDisplayIdMap, h) # last.arg
       /\ fromPhysicalDisplayId(mDisplayData, last.arg) = NoHandle

(* C8 (as claimed): for every display, the timestamps of the forwarded     *)
(* vsync events are strictly increasing.                                   *)
C8_ForwardedStrictlyIncreasing ==
    \A id \in DOMAIN fwd : Len(fwd[id]) = 2 => fwd[id][1] < fwd[id][2]

(* C8 (amended): within the lifetime of a display record, two vsync events *)
(* forwarded one after the other never carry the same timestamp.           *)
C8_ForwardedNeverRepeatsLast ==
    \A id \in DOMAIN fwd : Len(fwd[id]) = 2 => fwd[id][1] # fwd[id][2]

(* C8 witness: two events were forwarded for one record, and a further     *)
(* event with the timestamp of the second has just been dropped.           *)
C8_Witness ==
    /\ last.op = "onVsync" /\ ~last.ok
    /\ last.arg \in DOMAIN mPhysicalDisplayIdMap
    /\ mPhysicalDisplayIdMap[last.arg] \in DOMAIN fwd
    /\ Len(fwd[mPhysicalDisplayIdMap[last.arg]]) = 2
    /\ fwd[mPhysicalDisplayIdMap[last.arg]][2] = last.arg2

(* C9: an onVsync whose timestamp equals the display's last-seen timestamp *)
(* returns false and leaves the record (last-seen timestamp, trace toggle) *)
(* unchanged; any other timestamp becomes the last-seen one, flips the     *)
(* toggle and is forwarded.  Hence of two onVsync calls in a row with the  *)
(* same handle and timestamp the second is never forwarded.                *)
C9_DuplicateDroppedOtherForwarded ==
    [][ \A h \in Handles, t \in Timestamps :
          (/\ last'.op = "onVsync" /\ last'.arg = h /\ last'.arg2 = t
           /\ h \in DOMAIN mPhysicalDisplayIdMap
           /\ mPhysicalDisplayIdMap[h] \in DOMAIN mDisplayData)
          => LET id == mPhysicalDisplayIdMap[h]
             IN /\ (t = mDisplayData[id].lastHwVsync
                      => /\ last'.ok = FALSE
                         /\ mDisplayData' = mDisplayData)
                /\ (t # mDisplayData[id].lastHwVsync
                      => /\ last'.ok = TRUE
                         /\ mDisplayData'[id].lastHwVsync = t
                         /\ mDisplayData'[id].vsyncTraceToggle
                               = ~mDisplayData[id].vsyncTraceToggle)
                /\ ((last.op = "onVsync" /\ last.arg = h /\ last.arg2 = t)
                      => last'.ok = FALSE) ]_vars

(* C9 witness: an event was forwarded and the same timestamp, delivered    *)
(* again for the same handle, has just been dropped.                       *)
C9_Witness ==
    /\ last.op = "onVsync" /\ ~last.ok
    /\ last.arg \in DOMAIN mPhysicalDisplayIdMap
    /\ mPhysicalDisplayIdMap[last.arg] \in DOMAIN mDisplayData
    /\ mDisplayData[mPhysicalDisplayIdMap[last.arg]].lastHwVsync = last.arg2
    /\ mDisplayData[mPhysicalDisplayIdMap[last.arg]].vsyncTraceToggle
    /\ fwd[mPhysicalDisplayIdMap[last.arg]] = <<last.arg2>>

(* C10 (as claimed): setVsyncEnabled on an identity that is unknown or     *)
(* disconnected reports invalid display, makes no device call and changes  *)
(* nothing.                                                                *)
C10_NotConnectedIsInvalid ==
    [][ \A id \in PhysicalIds :
          (/\ last'.op = "setVsyncEnabled" /\ last'.arg = id
           /\ ~isConnected(mDisplayData, id))
          => /\ last'.status = "Invalid display"
             /\ last'.calls = <<>>
             /\ mDisplayData' = mDisplayData ]_vars

(* C10 (amended): setVsyncEnabled on an identity that has no record        *)
(* (never connected, or removed by disconnectDisplay) reports invalid      *)
(* display, makes no device call and changes nothing; a display that a     *)
(* bare hotplug disconnect only marked disconnected keeps its record, and  *)
(* for it the call is not an invalid-display condition: the device is      *)
(* called whenever the requested state differs from the cached one.        *)
C10_NoRecordIsInvalid ==
    [][ \A id \in PhysicalIds :
          (last'.op = "setVsyncEnabled" /\ last'.arg = id)
          => /\ (InvalidDisplay(mDisplayData, id)
                   => /\ last'.status = "Invalid display"
                      /\ last'.calls = <<>>
                      /\ mDisplayData' = mDisplayData)
             /\ (~InvalidDisplay(mDisplayData, id)
                   => /\ last'.status # "Invalid display"
                      /\ (last'.calls # <<>>)
                            = (mDisplayData[id].vsyncEnabled # (last'.arg2 = 1))) ]_vars

(* C10 witness: setVsyncEnabled has just been refused for an identity      *)
(* whose record disconnectDisplay removed (a first connection happened,    *)
(* and no record is left).                                                 *)
C10_Witness ==
    /\ last.op = "setVsyncEnabled" /\ last.status = "Invalid display"
    /\ last.arg = fromPort(LEGACY_DISPLAY_TYPE_PRIMARY)
    /\ firstMode # "none"
    /\ InvalidDisplay(mDisplayData, last.arg)

(* C11: setVsyncEnabled calls the device only when the requested state    *)
(* differs from the cached one; a request equal to the cached state        *)
(* changes nothing; a device error leaves the cached state as it was; and  *)
(* the cached state of a record changes in no step other than a            *)
(* setVsyncEnabled whose device call succeeded.                            *)
C11_VsyncSwitchCallsOnlyOnChange ==
    [][ /\ \A id \in DOMAIN mDisplayData :
             (last'.op = "setVsyncEnabled" /\ last'.arg = id)
             => LET requested == last'.arg2 = 1
                    cached == mDisplayData[id].vsyncEnabled
                IN /\ (requested = cached
                         => last'.calls = <<>> /\ mDisplayData' = mDisplayData)
                   /\ (requested # cached => last'.calls = <<"setVsyncEnabled">>)
                   /\ (last'.status = "error" => mDisplayData' = mDisplayData)
        /\ \A id \in DOMAIN mDisplayData \cap DOMAIN mDisplayData' :
             mDisplayData'[id].vsyncEnabled # mDisplayData[id].vsyncEnabled
             => /\ last'.op = "setVsyncEnabled" /\ last'.arg = id
                /\ last'.status = "ok"
                /\ last'.calls = <<"setVsyncEnabled">>
                /\ mDisplayData'[id].vsyncEnabled = (last'.arg2 = 1) ]_vars

(* C11 witness: vsync was enabled by a successful call, and a second       *)
(* request to enable it has just returned without a device call.           *)
C11_Witness ==
    /\ last.op = "setVsyncEnabled" /\ last.status = "unchanged" /\ last.arg2 = 1
    /\ last.calls = <<>>
    /\ last.arg \in DOMAIN mDisplayData
    /\ mDisplayData[last.arg].vsyncEnabled

(* C12: a display-scoped operation called with an identity that has no    *)
(* record issues no device call, creates no record and changes neither the *)
(* registry nor any per-display state (nor does the device present a       *)
(* frame); the next operation is then served as usual.                     *)
DisplayScopedOps ==
    {"createLayer", "setClientTarget", "getDeviceCompositionChanges",
     "presentAndGetReleaseFences", "setPowerMode", "setVsyncEnabled",
     "clearReleaseFences", "getLayerReleaseFence", "disconnectDisplay"}

C12_NoRecordFailsFast ==
    [][ \A id \in PhysicalIds :
          (/\ last'.op \in DisplayScopedOps /\ last'.arg = id
           /\ InvalidDisplay(mDisplayData, id))
          => /\ last'.calls = <<>>
             /\ ~(last'.status \in {"NO_ERROR", "ok", "layer", "unchanged", "error"})
             /\ last'.ret = IF last'.op = "getLayerReleaseFence" THEN NoFence
                            ELSE IF last'.op = "disconnectDisplay" THEN NoHandle ELSE 0
             /\ mDisplayData' = mDisplayData
             /\ mPhysicalDisplayIdMap' = mPhysicalDisplayIdMap
             /\ mInternalHwcDisplayId' = mInternalHwcDisplayId
             /\ mExternalHwcDisplayId' = mExternalHwcDisplayId
             /\ mHasMultiDisplaySupport' = mHasMultiDisplaySupport
             /\ hwcFrame' = hwcFrame ]_vars

(* C12 witness: presentAndGetReleaseFences has just been refused for an    *)
(* identity whose record disconnectDisplay removed after a frame had been  *)
(* presented on it.                                                        *)
C12_Witness ==
    /\ last.op = "presentAndGetReleaseFences" /\ last.status = "BAD_INDEX"
    /\ last.calls = <<>>
    /\ last.arg = fromPort(LEGACY_DISPLAY_TYPE_PRIMARY)
    /\ InvalidDisplay(mDisplayData, last.arg)
    /\ hwcFrame > 0

(* C13: allocateVirtualDisplay returns false, creates no record and makes *)
(* no device call when the resolution is degenerate or when the maximum    *)
(* dimension is non-zero and the width or the height exceeds it (0 means   *)
(* unbounded); otherwise it asks the device once, and creates no record    *)
(* when the device refuses; only on device success is there a record,      *)
(* tagged virtual and connected, and nothing else of the registry changes. *)
C13_VirtualAllocationChecked ==
    [][ \A id \in VirtualIds :
          (last'.op = "allocateVirtualDisplay" /\ last'.arg = id)
          => LET width == last'.arg2
                 height == last'.ret
                 rejected ==
                    \/ width <= 0 \/ height <= 0
                    \/ /\ mMaxVirtualDisplayDimension # 0
                       /\ (width > mMaxVirtualDisplayDimension
                           \/ height > mMaxVirtualDisplayDimension)
             IN /\ mPhysicalDisplayIdMap' = mPhysicalDisplayIdMap
                /\ mInternalHwcDisplayId' = mInternalHwcDisplayId
                /\ mExternalHwcDisplayId' = mExternalHwcDisplayId
                /\ \A other \in DOMAIN mDisplayData \ {id} :
                      /\ other \in DOMAIN mDisplayData'
                      /\ mDisplayData'[other] = mDisplayData[other]
                /\ DOMAIN mDisplayData' \subseteq DOMAIN mDisplayData \cup {id}
                /\ (rejected => /\ ~last'.ok
                                /\ last'.calls = <<>>
                                /\ mDisplayData' = mDisplayData)
                /\ (~rejected => last'.calls = <<"createVirtualDisplay">>)
                /\ (~last'.ok => mDisplayData' = mDisplayData)
                /\ (last'.ok => /\ id \in DOMAIN mDisplayData'
                                /\ mDisplayData'[id].isVirtual
                                /\ mDisplayData'[id].connected
                                /\ isConnected(mDisplayData', id)) ]_vars

(* C13 witness: with a maximum dimension configured, an allocation with a *)
(* valid width and a height above the maximum has just been refused, and   *)
(* no virtual record exists.                                               *)
C13_Witness ==
    /\ last.op = "allocateVirtualDisplay" /\ ~last.ok /\ last.calls = <<>>
    /\ mMaxVirtualDisplayDimension > 0
    /\ last.arg2 > 0 /\ last.arg2 <= mMaxVirtualDisplayDimension
    /\ last.ret > mMaxVirtualDisplayDimension
    /\ last.arg \notin DOMAIN mDisplayData

(* C14: a hotplug connect of a handle that is not mapped, which the       *)
(* ignore policy rejects (generalized mode and no identification data, or  *)
(* legacy mode and both tracked handles set), returns no identity and      *)
(* leaves the records, the handle map and the tracked handles unchanged.   *)
C14_IgnoredConnectChangesNothing ==
    [][ \A h \in Handles :
          (/\ last'.op = "connect" /\ last'.arg = h
           /\ h \notin DOMAIN mPhysicalDisplayIdMap
           /\ \/ mHasMultiDisplaySupport' /\ last'.arg2 = 0
              \/ /\ ~mHasMultiDisplaySupport'
                 /\ mInternalHwcDisplayId # NoHandle
                 /\ mExternalHwcDisplayId # NoHandle)
          => /\ last'.ret = NoId
             /\ ~last'.ok
             /\ mDisplayData' = mDisplayData
             /\ mPhysicalDisplayIdMap' = mPhysicalDisplayIdMap
             /\ mInternalHwcDisplayId' = mInternalHwcDisplayId
             /\ mExternalHwcDisplayId' = mExternalHwcDisplayId ]_vars

(* C14 witness: in generalized mode, with another display registered, a    *)
(* connect without identification data has just been ignored.              *)
C14_Witness ==
    /\ last.op = "connect" /\ last.arg2 = 0 /\ ~last.ok /\ last.ret = NoId
    /\ mHasMultiDisplaySupport
    /\ DOMAIN mPhysicalDisplayIdMap # {}
    /\ last.arg \notin DOMAIN mPhysicalDisplayIdMap

(* C15: a hotplug connect for a handle that is already mapped returns the *)
(* identity mapped to it, leaves the handle map as it is and creates no    *)
(* record for any other identity (nor a second one for this identity); if  *)
(* the identity is connected, the whole registry is left unchanged.        *)
C15_ReconnectReusesIdentity ==
    [][ \A h \in Handles :
          (/\ last'.op = "connect" /\ last'.arg = h
           /\ h \in DOMAIN mPhysicalDisplayIdMap)
          => LET id == mPhysicalDisplayIdMap[h]
             IN /\ last'.ok /\ last'.ret = id
                /\ mPhysicalDisplayIdMap' = mPhysicalDisplayIdMap
                /\ DOMAIN mDisplayData' = DOMAIN mDisplayData \cup {id}
                /\ \A other \in DOMAIN mDisplayData \ {id} :
                      mDisplayData'[other] = mDisplayData[other]
                /\ isConnected(mDisplayData', id)
                /\ (isConnected(mDisplayData, id)
                      => /\ mDisplayData' = mDisplayData
                         /\ mInternalHwcDisplayId' = mInternalHwcDisplayId
                         /\ mExternalHwcDisplayId' = mExternalHwcDisplayId
                         /\ mHasMultiDisplaySupport' = mHasMultiDisplaySupport) ]_vars

(* C15 witness: a handle that registered an identity from its descriptor   *)
(* has just connected again, this time without identification data, and    *)
(* got the same identity back; the registry holds that one record.         *)
C15_Witness ==
    /\ last.op = "connect" /\ last.ok /\ last.arg2 = 0
    /\ mHasMultiDisplaySupport
    /\ last.ret = fromEdid(LEGACY_DISPLAY_TYPE_PRIMARY, 1)
    /\ DOMAIN mDisplayData = {last.ret}
    /\ mPhysicalDisplayIdMap[last.arg] = last.ret

(* C16: for every identity at most one of fromPhysicalDisplayId and       *)
(* fromVirtualDisplayId returns a handle; when the identity has a record   *)
(* exactly one does, the one its virtual tag names, which is the virtual   *)
(* one for a virtual identity and the physical one for a physical          *)
(* identity; and toPhysicalDisplayId never returns the identity of a       *)
(* virtual record.                                                         *)
C16_PhysicalVirtualUnambiguous ==
    /\ \A id \in PhysicalIds \cup VirtualIds :
          LET physical == fromPhysicalDisplayId(mDisplayData, id)
              virtual == fromVirtualDisplayId(mDisplayData, id)
          IN /\ ~(physical # NoHandle /\ virtual # NoHandle)
             /\ (id \notin DOMAIN mDisplayData
                   => physical = NoHandle /\ virtual = NoHandle)
             /\ (id \in DOMAIN mDisplayData
                   => /\ (physical # NoHandle) # (virtual # NoHandle)
                      /\ (virtual # NoHandle) = mDisplayData[id].isVirtual
                      /\ mDisplayData[id].isVirtual = (id \in VirtualIds)
                      /\ mDisplayData[id].hwcId \in {physical, virtual})
    /\ \A h \in Handles \cup VirtualHandles :
          LET id == toPhysicalDisplayId(mPhysicalDisplayIdMap, h)
          IN id # NoId => /\ id \notin VirtualIds
                          /\ fromVirtualDisplayId(mDisplayData, id) = NoHandle

(* C16 witness: a virtual display has just been allocated next to two      *)
(* physical displays.                                                      *)
C16_Witness ==
    /\ last.op = "allocateVirtualDisplay" /\ last.ok
    /\ fromVirtualDisplayId(mDisplayData, last.arg) \in VirtualHandles
    /\ Cardinality(DOMAIN mDisplayData) = 3
    /\ Cardinality(DOMAIN mPhysicalDisplayIdMap) = 2

(* C17: getLayerReleaseFence returns the no-fence sentinel, and no error,  *)
(* for an unknown display and for a layer that is not in the display's     *)
(* stored release-fence map: never tracked, dropped by a later capture, or *)
(* dropped by clearReleaseFences, after which no layer has a fence; a      *)
(* layer that is in the map gets its stored fence.                         *)
C17_UntrackedLayerHasNoFence ==
    /\ last.op = "getLayerReleaseFence"
          => /\ last.ok /\ last.status = ""
             /\ (InvalidDisplay(mDisplayData, last.arg) => last.ret = NoFence)
             /\ (~InvalidDisplay(mDisplayData, last.arg) =>
                   LET fences == mDisplayData[last.arg].releaseFences
                   IN /\ (last.arg2 \notin DOMAIN fences => last.ret = NoFence)
                      /\ (last.arg2 \in DOMAIN fences
                            => last.ret = fences[last.arg2] /\ last.ret # NoFence))
    /\ (last.op = "clearReleaseFences" /\ ~InvalidDisplay(mDisplayData, last.arg))
          => \A layer \in QueriedLayers :
                getLayerReleaseFence(mDisplayData, last.arg, layer) = NoFence

(* C17 witness: the display holds a release fence of a presented frame for *)
(* one layer, and a lookup for a layer that never had one has just         *)
(* returned the sentinel.                                                  *)
C17_Witness ==
    /\ last.op = "getLayerReleaseFence" /\ last.ret = NoFence
    /\ ~InvalidDisplay(mDisplayData, last.arg)
    /\ DOMAIN mDisplayData[last.arg].releaseFences # {}
    /\ last.arg2 \notin DOMAIN mDisplayData[last.arg].releaseFences
    /\ mDisplayData[last.arg].lastPresentFence # NoFence

(* C18 (as claimed): an erase of a record by the frame thread never       *)
(* interleaves with an operation of the callback thread that uses the      *)
(* record: while an onVsync call is between its invalid-display check and  *)
(* its use of the record, the record exists, and no record exists that no  *)
(* allocation created.                                                     *)
C18_NoEraseUnderOperation ==
    /\ inFlight # NoCall => ~InvalidDisplay(mDisplayData, inFlight.id)
    /\ last.status # "raced"
    /\ \A id \in DOMAIN mDisplayData : mDisplayData[id].hwcId # NoHandle

(* C19 (as claimed): the capability set and the metadata key table have   *)
(* been loaded as often as registerCallback was called on the device,      *)
(* which is at most once.                                                  *)
C19_LoadedOncePerRegistration ==
    /\ loads = registrations
    /\ registrations <= 1

(* C20 (as claimed): when presentOrValidate reports state 0, a validate   *)
(* call is issued to the device before getChangedCompositionTypes,         *)
(* getRequests and getClientTargetProperty.                                *)
C20_SlowValidateBeforeQueries ==
    (/\ last.op = "getDeviceCompositionChanges" /\ last.arg2 = 0
     /\ \E i \in 1..Len(last.calls) : last.calls[i] = "getChangedCompositionTypes")
    => \E i, j \in 1..Len(last.calls) :
          /\ i < j
          /\ last.calls[i] = "validate"
          /\ last.calls[j] = "getChangedCompositionTypes"

(* C20 (amended): when presentOrValidate reports state 0 without a failure *)
(* no validate call is issued: presentOrValidate is the only validating    *)
(* call, and getChangedCompositionTypes, getRequests,                      *)
(* getClientTargetProperty and acceptChanges follow it directly and in     *)
(* this order, up to the first of them that fails.                         *)
C20_QueriesFollowPresentOrValidate ==
    (/\ last.op = "getDeviceCompositionChanges" /\ last.arg2 = 0
     /\ last.arg \in DOMAIN frameState /\ frameState[last.arg] = 0)
    => LET order == <<"presentOrValidate", "getChangedCompositionTypes", "getRequests",
                      "getClientTargetProperty", "acceptChanges">>
       IN /\ Len(last.calls) >= 2 /\ Len(last.calls) <= Len(order)
          /\ \A i \in 1..Len(last.calls) : last.calls[i] = order[i]
          /\ (last.ok = (Len(last.calls) = Len(order)))

(* C20 witness: no frame has been presented, and a call that obtained      *)
(* state 0 has just queried the changes right after presentOrValidate and  *)
(* accepted them.                                                          *)
C20_Witness ==
    /\ last.op = "getDeviceCompositionChanges" /\ last.arg2 = 0
    /\ last.calls = <<"presentOrValidate", "getChangedCompositionTypes", "getRequests",
                      "getClientTargetProperty", "acceptChanges">>
    /\ hwcFrame = 0
    /\ ~mDisplayData[last.arg].validateWasSkipped

(* Whether the i-th device call of the latest frame step failed. *)
CallFailed(i) == (last.ret \div (2 ^ (i - 1))) % 2 = 1

FrameSteps == {"getDeviceCompositionChanges", "presentAndGetReleaseFences"}

(* C21 (as claimed): in getDeviceCompositionChanges and                    *)
(* presentAndGetReleaseFences every device call that fails (the            *)
(* has-pending-changes code of presentOrValidate is no failure) is the     *)
(* last device call of the step, and the step returns a non-success status.*)
C21_AnyDeviceErrorAborts ==
    last.op \in FrameSteps
    => \A i \in 1..Len(last.calls) :
          CallFailed(i) => /\ i = Len(last.calls)
                           /\ last.status # "NO_ERROR"

(* C21 (amended): the same, with two exceptions.  A failure of             *)
(* getClientTargetProperty is not looked at: the step goes on as if the    *)
(* call had succeeded.  A failure of getReleaseFences after a commit       *)
(* without changes (state 1) ends the step with success and is kept in the *)
(* record as the error the present step then reports.                      *)
C21_DeviceErrorAbortsUnlessIgnoredOrDeferred ==
    last.op \in FrameSteps
    => \A i \in 1..Len(last.calls) :
          CallFailed(i) =>
             IF last.calls[i] = "getClientTargetProperty"
             THEN /\ last.ok
                  /\ (last.arg2 # 2 =>
                        /\ last.calls[Len(last.calls)] = "acceptChanges"
                        /\ (last.status = "NO_ERROR") = ~CallFailed(Len(last.calls)))
                  /\ (last.arg2 = 2 => i = Len(last.calls) /\ last.status = "NO_ERROR")
             ELSE IF /\ last.op = "getDeviceCompositionChanges"
                     /\ last.calls[i] = "getReleaseFences" /\ last.arg2 = 1
             THEN /\ i = Len(last.calls)
                  /\ last.status = "NO_ERROR"
                  /\ mDisplayData[last.arg].presentError # "NONE"
                  /\ mDisplayData[last.arg].validateWasSkipped
             ELSE /\ i = Len(last.calls)
                  /\ last.status # "NO_ERROR"

(* C21 witness: getRequests has just failed, as the third device call of a *)
(* negotiation, which returned a failure without a further device call.    *)
C21_Witness ==
    /\ last.op = "getDeviceCompositionChanges"
    /\ last.calls = <<"presentOrValidate", "getChangedCompositionTypes", "getRequests">>
    /\ CallFailed(3) /\ ~CallFailed(1) /\ ~CallFailed(2)
    /\ last.status = "BAD_INDEX"


(* C22: a presentAndGetReleaseFences that finds the validate-was-skipped   *)
(* flag set clears the flag, calls executeCommands and nothing else (no    *)
(* present), returns a failure exactly when executeCommands fails or the   *)
(* record holds an error captured during the skipped validate, and leaves  *)
(* the stored present fence and release-fence map as they were captured.   *)
C22_SkippedPresentOnlyFlushes ==
    [][ \A id \in LegacyIds :
          (/\ last'.op = "presentAndGetReleaseFences" /\ last'.arg = id
           /\ id \in DOMAIN mDisplayData
           /\ mDisplayData[id].validateWasSkipped)
          => /\ ~mDisplayData'[id].validateWasSkipped
             /\ last'.calls = <<"executeCommands">>
             /\ last'.status \in {"NO_ERROR", "UNKNOWN_ERROR"}
             /\ (last'.status = "UNKNOWN_ERROR") =
                   (last'.ret % 2 = 1 \/ mDisplayData[id].presentError # "NONE")
             /\ mDisplayData'[id].lastPresentFence = mDisplayData[id].lastPresentFence
             /\ mDisplayData'[id].releaseFences = mDisplayData[id].releaseFences
             /\ mDisplayData'[id].presentError = mDisplayData[id].presentError
             /\ hwcFrame' = hwcFrame ]_vars

(* C22 witness: executeCommands succeeded, and the present step has just   *)
(* reported the error captured when the release fences of the committed    *)
(* frame could not be read; the present fence of that frame is stored.     *)
C22_Witness ==
    /\ last.op = "presentAndGetReleaseFences"
    /\ last.calls = <<"executeCommands">> /\ ~CallFailed(1)
    /\ last.status = "UNKNOWN_ERROR"
    /\ last.arg \in DOMAIN mDisplayData
    /\ ~mDisplayData[last.arg].validateWasSkipped
    /\ mDisplayData[last.arg].presentError # "NONE"
    /\ mDisplayData[last.arg].lastPresentFence # NoFence


(* C23: a presentAndGetReleaseFences that does not find the                *)
(* validate-was-skipped flag set waits for the earliest present time, once *)
(* and as the first thing it does, exactly when the previous present fence *)
(* is not pending; the device present call follows directly (it is the     *)
(* first call when the fence is pending), and it is made exactly once.     *)
C23_WaitsIffPreviousFrameSignaled ==
    [][ \A d \in PresentAnswers :
          (/\ last'.op = "presentAndGetReleaseFences"
           /\ last'.arg \in DOMAIN mDisplayData
           /\ ~mDisplayData[last'.arg].validateWasSkipped
           /\ PresentAndGetReleaseFences(last'.arg, d))
          => LET calls == last'.calls
             IN /\ Count(calls, "present") = 1
                /\ Count(calls, "sleep_until") = IF d.previousFramePending THEN 0 ELSE 1
                /\ (d.previousFramePending => calls[1] = "present")
                /\ (~d.previousFramePending =>
                       calls[1] = "sleep_until" /\ calls[2] = "present") ]_vars

(* C23 witness: a present step has just waited, presented and read the     *)
(* release fences, on a display whose validation was not skipped.          *)
C23_Witness ==
    /\ last.op = "presentAndGetReleaseFences"
    /\ last.calls = <<"sleep_until", "present", "getReleaseFences">>
    /\ last.status = "NO_ERROR"
    /\ last.arg2 \notin {1, 2}


(* C24: a record holds one present fence and one release-fence map.  When  *)
(* getDeviceCompositionChanges captures a committed frame (state 1 or 2)   *)
(* or presentAndGetReleaseFences presents with success, the stored map     *)
(* becomes the map the device handed out for that frame and the stored     *)
(* present fence the fence of that frame: nothing of the earlier map       *)
(* stays, and a layer outside the new map looks up as the no-fence         *)
(* sentinel.                                                               *)
C24_CaptureOverwritesFences ==
    [][ \A id \in LegacyIds :
          (/\ last'.arg = id /\ id \in DOMAIN mDisplayData'
           /\ \/ /\ last'.op = "getDeviceCompositionChanges"
                 /\ last'.arg2 \in {1, 2} /\ frameState'[id] \in {1, 2}
              \/ /\ last'.op = "presentAndGetReleaseFences"
                 /\ last'.status = "NO_ERROR"
                 /\ Count(last'.calls, "present") = 1)
          => /\ mDisplayData'[id].lastPresentFence \in 0..MaxFrame
             /\ DOMAIN mDisplayData'[id].releaseFences \subseteq FrameLayers
             /\ mDisplayData'[id].lastPresentFence = hwcFrame'
             /\ hwcFrame' = hwcFrame + 1
             /\ mDisplayData'[id].releaseFences = hwcReleaseFences'
             /\ \A l \in QueriedLayers :
                   getLayerReleaseFence(mDisplayData', id, l) =
                      IF l \in DOMAIN hwcReleaseFences' THEN hwcFrame' ELSE NoFence ]_vars

(* C24 witness: the second frame of the device has just been presented     *)
(* with success and without a release fence for any layer: the record      *)
(* holds the present fence of that frame and an empty map.                 *)
C24_Witness ==
    /\ last.op = "presentAndGetReleaseFences" /\ last.status = "NO_ERROR"
    /\ Count(last.calls, "present") = 1
    /\ hwcFrame = 2
    /\ last.arg \in DOMAIN mDisplayData
    /\ mDisplayData[last.arg].lastPresentFence = 2
    /\ mDisplayData[last.arg].releaseFences = <<>>
    /\ hwcReleaseFences = <<>>


(* C25: while a setVsyncEnabled call for a display is inside the device,   *)
(* holding that display's vsync lock, every setVsyncEnabled call for       *)
(* another display, and every vsync event, hotplug connect and hotplug     *)
(* disconnect for a handle of another display, can run to completion.      *)
C25_BlockedCallHoldsOnlyOwnLock ==
    vsyncCall # NoVsyncCall
    => /\ vsyncEnabledLock(vsyncCall, vsyncCall.id)
       /\ \A id \in LegacyIds \ {vsyncCall.id} :
             \A enabled \in BOOLEAN, error \in HalErrors :
                ENABLED ThreadSetVsyncEnabled(id, enabled, error)
       /\ \A h \in Handles :
             toPhysicalDisplayId(mPhysicalDisplayIdMap, h) # vsyncCall.id
             => /\ \A t \in Timestamps : ENABLED OnVsync(h, t)
                /\ ENABLED HotplugConnect(h, NoData)
                /\ ENABLED HotplugDisconnect(h)

(* C25 witness: while the call for one display is inside the device, a     *)
(* setVsyncEnabled call for the other display has called the device and    *)
(* returned.                                                               *)
C25_Witness ==
    /\ vsyncCall # NoVsyncCall
    /\ last.op = "setVsyncEnabled" /\ last.status = "ok"
    /\ last.arg # vsyncCall.id
    /\ last.arg \in DOMAIN mDisplayData
    /\ mDisplayData[last.arg].vsyncEnabled


(* The connects C26 is about: the handle has no identity yet, the device   *)
(* has identification data for it, the data does not parse, and the        *)
(* addressing mode, as the connect finds or selects it, is generalized.    *)
UnparsedGeneralizedConnect(h, resp) ==
    /\ last'.op = "connect" /\ last'.arg = h
    /\ HotplugConnect(h, resp)
    /\ toPhysicalDisplayId(mPhysicalDisplayIdMap, h) = NoId
    /\ resp.has /\ parseDisplayIdentificationData(resp) = NoInfo
    /\ mHasMultiDisplaySupport'

(* C26 (as claimed): such a connect is not ignored and yields the identity *)
(* derived from the port, an empty display name and no product descriptor. *)
C26_UnparsedConnectHasEmptyName ==
    [][ \A h \in Handles, resp \in IdentResponses :
          UnparsedGeneralizedConnect(h, resp)
          => LET info == onHotplugConnect(Registry,
                                          mUpdateDeviceProductInfoOnHotplugReconnect,
                                          h, resp).info
             IN /\ last'.ok /\ last'.ret = fromPort(resp.port)
                /\ info.id = fromPort(resp.port)
                /\ info.name = ""
                /\ info.deviceProductInfo = NoProduct ]_vars

(* C26 (amended): such a connect is not ignored and yields the identity    *)
(* derived from the port and no product descriptor; the display name is    *)
(* "Internal display" when no primary handle is tracked and "External      *)
(* display" otherwise.  The handle is registered for the identity unless   *)
(* the identity has a connected record already.                            *)
C26_UnparsedConnectFallsBackToPort ==
    [][ \A h \in Handles, resp \in IdentResponses :
          UnparsedGeneralizedConnect(h, resp)
          => LET info == onHotplugConnect(Registry,
                                          mUpdateDeviceProductInfoOnHotplugReconnect,
                                          h, resp).info
             IN /\ last'.ok /\ last'.ret = fromPort(resp.port)
                /\ info.id = fromPort(resp.port)
                /\ info.name = IF mInternalHwcDisplayId = NoHandle
                               THEN "Internal display" ELSE "External display"
                /\ info.deviceProductInfo = NoProduct
                /\ isConnected(mDisplayData', info.id)
                /\ (~isConnected(mDisplayData, info.id)
                      => /\ toPhysicalDisplayId(mPhysicalDisplayIdMap', h) = info.id
                         /\ mDisplayData'[info.id].hwcId = h) ]_vars

(* C26 witness: the first connect ever came with identification data that  *)
(* does not parse: the mode is generalized and the handle is registered    *)
(* for the identity of its port.                                           *)
C26_Witness ==
    /\ log # Broken /\ Len(log) = 1
    /\ log[1].has
    /\ log[1].ret = fromPort(LEGACY_DISPLAY_TYPE_EXTERNAL)
    /\ mHasMultiDisplaySupport
    /\ last.op = "connect" /\ last.ok
    /\ toPhysicalDisplayId(mPhysicalDisplayIdMap, last.arg) = log[1].ret


(* C27 (as claimed): the handle-to-identity map is injective, every mapped *)
(* identity has a record whose device handle is the mapped handle, and the *)
(* handle of every physical record is mapped to the identity of the        *)
(* record.                                                                 *)
C27_MapAndRecordsAgree ==
    /\ \A h1, h2 \in DOMAIN mPhysicalDisplayIdMap :
          mPhysicalDisplayIdMap[h1] = mPhysicalDisplayIdMap[h2] => h1 = h2
    /\ \A h \in DOMAIN mPhysicalDisplayIdMap :
          /\ mPhysicalDisplayIdMap[h] \in DOMAIN mDisplayData
          /\ mDisplayData[mPhysicalDisplayIdMap[h]].hwcId = h
    /\ \A id \in DOMAIN mDisplayData :
          ~mDisplayData[id].isVirtual
          => toPhysicalDisplayId(mPhysicalDisplayIdMap, mDisplayData[id].hwcId) = id


(* C28 (as claimed): the tracked internal and external handles, when both  *)
(* are set, differ, and a slot that is set holds a handle of the           *)
(* handle-to-identity map.                                                 *)
C28_TrackedHandlesDistinctAndMapped ==
    /\ (mInternalHwcDisplayId # NoHandle /\ mExternalHwcDisplayId # NoHandle)
          => mInternalHwcDisplayId # mExternalHwcDisplayId
    /\ mInternalHwcDisplayId # NoHandle
          => mInternalHwcDisplayId \in DOMAIN mPhysicalDisplayIdMap
    /\ mExternalHwcDisplayId # NoHandle
          => mExternalHwcDisplayId \in DOMAIN mPhysicalDisplayIdMap


(* C29 (as claimed): when a getDeviceCompositionChanges call for a display *)
(* returns, the validate-was-skipped flag of the record is set exactly     *)
(* when that call obtained state 1 or 2 from a presentOrValidate that did  *)
(* not fail; so the flag a presentAndGetReleaseFences finds set was set by *)
(* the most recent getDeviceCompositionChanges call for the display.       *)
C29_FlagSetOnlyByLatestCommit ==
    \A id \in DOMAIN mDisplayData :
       (last.op = "getDeviceCompositionChanges" /\ last.arg = id)
       => (mDisplayData[id].validateWasSkipped =
             (last.arg2 \in {1, 2} /\ ~CallFailed(1)))


(* C30 (as claimed): in every record, every fence of the stored            *)
(* release-fence map belongs to the frame of the stored present fence.     *)
C30_ReleaseFencesOfPresentFenceFrame ==
    \A id \in DOMAIN mDisplayData :
       \A l \in DOMAIN mDisplayData[id].releaseFences :
          mDisplayData[id].releaseFences[l] = mDisplayData[id].lastPresentFence


(* C31 (as claimed): a status-returning display operation called with an   *)
(* identity that has no record, or whose device call fails, returns a      *)
(* status other than NO_ERROR; so no call reports NO_ERROR and leaves its  *)
(* output parameter unwritten.                                             *)
C31_FailureNeverReportsSuccess ==
    (last.op \in {"getDisplayVsyncPeriod", "setAutoLowLatencyMode"}
        /\ last.arg2 \in {NoRecord, DeviceCallFailed})
    => last.status # "NO_ERROR"


(* C32 (as claimed): for every physical record, whatever the interleaving  *)
(* of setVsyncEnabled calls and hotplug connects and disconnects, the      *)
(* cached vsync-enabled flag equals the state most recently applied with   *)
(* success to the device display the record holds (disabled if none was    *)
(* applied to it); so setVsyncEnabled skips a request as redundant only    *)
(* when that device display is in the requested state.                     *)
C32_FlagIsStateOfHeldDisplay ==
    \A id \in DOMAIN mDisplayData :
       ~mDisplayData[id].isVirtual
       => mDisplayData[id].vsyncEnabled = hwcVsync[id].applied

====
